---- MODULE Spec2Model ----
(***************************************************************************)
(* Process supervisor of the miner GUI (src-tauri/src/miner.rs): the MINER *)
(* slot, LAST_CFG, the safe-mode flags, start/stop/set_safe_mode, the      *)
(* stderr reader task and the status poller task.                          *)
(*                                                                         *)
(* Every async fn is cut into steps at its accesses to shared state (the   *)
(* tokio mutexes, the OS process table); the tauri runtime is              *)
(* multi-threaded, so steps of different tasks interleave freely.          *)
(* Option<T> is a sequence of length <= 1: <<>> is None, <<x>> is Some(x). *)
(* MinerConfig is modelled by its chain and extra_args: rewards_address,   *)
(* binary_path and log_to_file do not reach any modelled decision (the     *)
(* rewards address on the command line comes from the account file).       *)
(***************************************************************************)
EXTENDS Integers, Sequences, FiniteSets, TLC

\* ---------------------------------------------------------------- bounds
\* Children spawned over one run (each spawn also creates a reader and a poller).
MaxSpawns == 3
\* Command tasks (tauri command invocations) that may be in flight at once.
NumCmds == 2
\* "Importing block #N" lines the readers take in over one run.
MaxLines == 3
\* Commands (start, stop) the UI issues over one run.
MaxCalls == 2
\* Length of the caller-supplied extra_args studied on their own.
MaxArgs == 3
\* Iterations of the poller loop that reach the tick (tick is a u32 that wraps;
\* the bound keeps it far below the wrap).
MaxTicks == 10

\* ---------------------------------------------------------------- constants
NONE == <<>>
Some(x) == <<x>>

FLAG == "--max-blocks-per-request"

RESONANCE_TROUBLESOME_RANGES == {<<13311, 13360>>}

Chains == {"resonance", "heisenberg", "quantus"}
UserArgs == {<<>>, <<FLAG, "1">>}
Configs == [chain : Chains, extra_args : UserArgs]
\* Heights a stderr line "Importing block #N" may carry: below, at the start of,
\* at the end of, and past the troublesome range.
Blocks == {13310, 13311, 13360, 13361}

\* Head numbers and peer counts the node's JSON-RPC replies may carry.
Heads == {1, 2}
PeerCounts == {0, 3}

Children == 1..MaxSpawns
Cmds == {<<"cmd", i>> : i \in 1..NumCmds}
Pollers == {<<"poller", k>> : k \in Children}
Procs == Cmds \cup Pollers

VARIABLES
    MINER,              \* Option<Child>: the slot
    LAST_CFG,           \* Option<MinerConfig>
    SAFE_MODE_ACTIVE,   \* bool
    SAFE_MODE_PENDING,  \* Option<bool>
    alive,              \* children whose OS process is running
    nspawn,             \* children spawned so far
    argv,               \* the argument vector of the most recently spawned child
    task,               \* per command task / poller task: position and locals
    reader,             \* per child: its stderr reader task
    poll,               \* per poller: the status locals of spawn_status_task
    out,                \* events published by the last step
    sigs,               \* signals sent by the last step
    nlines,             \* "Importing block" lines read so far
    ncalls,             \* commands issued so far
    lastStatus,         \* Option: the last "miner:status" payload the sink received
    probe,              \* a pure function under study: its input and what it has computed
                        \* (SpecLocks: the lifetime the build gives to a guard)
    disk                \* the node's database directory and its LOCK file: do they exist

\* everything but the probe
lifecycle == <<disk, MINER, LAST_CFG, SAFE_MODE_ACTIVE, SAFE_MODE_PENDING, alive, nspawn,
               argv, task, reader, poll, out, sigs, nlines, ncalls, lastStatus>>

vars == <<disk, MINER, LAST_CFG, SAFE_MODE_ACTIVE, SAFE_MODE_PENDING, alive, nspawn,
          argv, task, reader, poll, out, sigs, nlines, ncalls, lastStatus, probe>>

\* ---------------------------------------------------------------- pure helpers
has_max_blocks_arg(args) == \E i \in 1..Len(args) : args[i] = FLAG

\* faulty variant of the removal loop: drops the flag and keeps its value token
RECURSIVE remove_from_flag_only(_, _)
remove_from_flag_only(args, i) ==
    IF i > Len(args) THEN args
    ELSE IF args[i] = FLAG
         THEN remove_from_flag_only(SubSeq(args, 1, i - 1) \o SubSeq(args, i + 1, Len(args)), i)
         ELSE remove_from_flag_only(args, i + 1)

RECURSIVE remove_from(_, _)
remove_from(args, i) ==
    IF i > Len(args) THEN args
    ELSE IF args[i] = FLAG
         THEN LET a1 == SubSeq(args, 1, i - 1) \o SubSeq(args, i + 1, Len(args))
                  a2 == IF i <= Len(a1) /\ a1[i] # "--"
                        THEN SubSeq(a1, 1, i - 1) \o SubSeq(a1, i + 1, Len(a1))
                        ELSE a1
              IN remove_from(a2, i)
         ELSE remove_from(args, i + 1)

remove_max_blocks_arg(args) == remove_from(args, 1)

\* set_safe_mode's adjustment of extra_args
AdjustArgs(args, enable) ==
    IF enable
    THEN IF has_max_blocks_arg(args) THEN args ELSE args \o <<FLAG, "1">>
    ELSE remove_max_blocks_arg(args)

cli_chain(chain) == IF chain = "resonance" THEN "live_resonance" ELSE chain

\* faulty variant of BuildArgs: the configuration's extra_args come first
BuildArgsExtraFirst(cfg) ==
    cfg.extra_args \o <<"--chain", cli_chain(cfg.chain), "--validator", "--node-key-file",
                        "<node_key_path>", "--rewards-address", "<acct.address>">>

BuildArgs(cfg) ==
    <<"--chain", cli_chain(cfg.chain), "--validator", "--node-key-file",
      "<node_key_path>", "--rewards-address", "<acct.address>">> \o cfg.extra_args

bootnode_ws_for_chain(chain) ==
    IF chain = "resonance" THEN Some("wss://a.t.res.fm")
    ELSE IF chain = "heisenberg" THEN Some("wss://a.i.res.fm")
    ELSE NONE

RangesFor(chain) == IF chain = "resonance" THEN RESONANCE_TROUBLESOME_RANGES ELSE {}

in_range(ranges, n) == \E r \in ranges : n >= r[1] /\ n <= r[2]
\* faulty variant of past_all: a block at a range's end counts as past it
past_all_incl(ranges, n) == \A r \in ranges : n >= r[2]
past_all(ranges, n) == \A r \in ranges : n > r[2]
approaching(ranges, n) == \E r \in ranges : n >= r[1]

Count(args, tok) == Cardinality({i \in 1..Len(args) : args[i] = tok})

\* ---------------------------------------------------------------- records
IdleTask == [pc |-> "idle", stack |-> <<>>, op |-> "none", cfg |-> NONE,
             child |-> NONE, enable |-> FALSE, res |-> "none"]
UnbornTask == [IdleTask EXCEPT !.pc = "unborn"]

NoReader == [pc |-> "unborn", block |-> 0, chain |-> "", active_now |-> FALSE,
             stdout |-> "unborn"]
\* the two reader tasks of a child right after start has spawned them
LiveReader == [NoReader EXCEPT !.pc = "read", !.stdout = "read"]

EmptyStatus == [peers |-> NONE, current_block |-> NONE, highest_block |-> NONE,
                is_syncing |-> NONE]
\* io: how the last send or read on the local session ended; boot: how the
\* bootnode sampling of this iteration ended
NoPoll == [ws_opt |-> FALSE, sub_id |-> FALSE, tick |-> 0, got_update |-> FALSE,
           st |-> EmptyStatus, io |-> "none", boot |-> "none"]

Ev(topic, source) == [topic |-> topic, source |-> source, status |-> NONE, line |-> NONE]
StatusEv(s) == [topic |-> "miner:status", source |-> "poller", status |-> Some(s),
                line |-> NONE]
\* the "ui" log line that announces a scheduled toggle for block n
ToggleLog(enable, n) == [topic |-> "miner:log", source |-> "ui", status |-> NONE,
                         line |-> <<enable, n>>]
Sig(name, k) == [sig |-> name, pid |-> k, delivered |-> k \in alive]

\* return from the current call with result r; back in the poller loop the call's
\* locals are dropped (the poller ignores the result of set_safe_mode)
Ret(t, r) ==
    IF Head(t.stack) = "poll_connect"
    THEN [t EXCEPT !.pc = "poll_connect", !.stack = <<>>, !.res = "none",
                   !.cfg = NONE, !.enable = FALSE, !.child = NONE]
    ELSE [t EXCEPT !.pc = Head(t.stack), !.stack = Tail(t.stack), !.res = r]

\* ---------------------------------------------------------------- initial state
\* nothing has been started yet: the lazy_static values, no task, no child
StoppedTasks ==
    /\ MINER = NONE
    /\ LAST_CFG = NONE
    /\ SAFE_MODE_ACTIVE = FALSE
    /\ SAFE_MODE_PENDING = NONE
    /\ alive = {}
    /\ nspawn = 0
    /\ argv = <<>>
    /\ task = [p \in Procs |-> IF p \in Cmds THEN IdleTask ELSE UnbornTask]
    /\ reader = [k \in Children |-> NoReader]
    /\ poll = [p \in Pollers |-> NoPoll]
    /\ out = <<>>
    /\ sigs = <<>>
    /\ nlines = 0
    /\ ncalls = 0
    /\ lastStatus = NONE

NoDisk == [db |-> FALSE, lock |-> FALSE]
Stopped == StoppedTasks /\ disk = NoDisk

Init == Stopped /\ probe = NONE

\* ---------------------------------------------------------------- commands
\* a command task calls miner::start(cfg) (commands.rs start_miner)
CmdStart(p, cfg) ==
    /\ p \in Cmds /\ task[p].pc = "idle"
    /\ ncalls < MaxCalls
    /\ ncalls' = ncalls + 1
    /\ task' = [task EXCEPT ![p] = [IdleTask EXCEPT !.pc = "start", !.stack = <<"done">>,
                                                     !.op = "start", !.cfg = Some(cfg)]]
    /\ out' = <<>>
    /\ sigs' = <<>>
    /\ UNCHANGED <<probe, disk, MINER, LAST_CFG, SAFE_MODE_ACTIVE, SAFE_MODE_PENDING, alive, nspawn,
                   argv, reader, poll, nlines, lastStatus>>

\* a command task calls miner::stop() (commands.rs stop_miner)
CmdStop(p) ==
    /\ p \in Cmds /\ task[p].pc = "idle"
    /\ ncalls < MaxCalls
    /\ ncalls' = ncalls + 1
    /\ task' = [task EXCEPT ![p] = [IdleTask EXCEPT !.pc = "stop", !.stack = <<"done">>,
                                                     !.op = "stop"]]
    /\ out' = <<>>
    /\ sigs' = <<>>
    /\ UNCHANGED <<probe, disk, MINER, LAST_CFG, SAFE_MODE_ACTIVE, SAFE_MODE_PENDING, alive, nspawn,
                   argv, reader, poll, nlines, lastStatus>>

\* the command has returned its result to the UI
CmdDone(p) ==
    /\ p \in Cmds /\ task[p].pc = "done"
    /\ task' = [task EXCEPT ![p] = IdleTask]
    /\ out' = <<>>
    /\ sigs' = <<>>
    /\ UNCHANGED <<probe, disk, MINER, LAST_CFG, SAFE_MODE_ACTIVE, SAFE_MODE_PENDING, alive, nspawn,
                   argv, reader, poll, nlines, ncalls, lastStatus>>

\* ---------------------------------------------------------------- stop
\* The guard that stop takes with MINER.lock() is a temporary of the `if let`
\* scrutinee: it lives to the end of the `if let`, so a stop that found a child
\* holds the MINER mutex until its kill has returned.
HoldsMiner(q) == task[q].pc \in {"stop_int", "stop_kill"}
MinerFree == \A q \in Procs : ~HoldsMiner(q)

\* poller p is inside the set_safe_mode call it made at the top of its loop
ToggleInProgress(p) == task[p].stack # <<>>

\* Where the guard in `if let Some(pending) = { SAFE_MODE_PENDING.lock().await
\* .take() } { set_safe_mode(..).await }` is dropped depends on the edition the
\* crate is built with: at the end of the inner block ("block", edition 2024)
\* or at the end of the whole `if let` ("statement", editions up to 2021), and
\* then the poller holds SAFE_MODE_PENDING for the whole of set_safe_mode.
\* Blocking only removes interleavings, so the other specifications, which
\* release the guard at the end of the block, cover the behaviours of both
\* builds; SpecLocks draws the lifetime in its initial state. Every other
\* guard is released within the step that takes it, without another mutex
\* being asked for meanwhile.
GuardLifetimes == {"block", "statement"}
HoldsPending(q) ==
    /\ probe # NONE /\ probe[1].guard = "statement"
    /\ q \in Pollers /\ ToggleInProgress(q)
PendingFree == \A q \in Pollers : ~HoldsPending(q)

\* faulty variant of StopKill: stop also takes SAFE_MODE_PENDING, to clear the
\* request, while it still holds MINER
StopKillClearsPending(p) ==
    /\ task[p].pc = "stop_kill"
    /\ PendingFree
    /\ SAFE_MODE_PENDING' = NONE
    /\ alive' = alive \ {task[p].child[1]}
    /\ sigs' = <<Sig("SIGKILL", task[p].child[1])>>
    /\ task' = [task EXCEPT ![p] = Ret([task[p] EXCEPT !.child = NONE], "ok")]
    /\ out' = <<>>
    /\ UNCHANGED <<probe, disk, MINER, LAST_CFG, SAFE_MODE_ACTIVE, nspawn,
                   argv, reader, poll, nlines, ncalls, lastStatus>>

\* faulty variant of StopTake: reads the slot without emptying it
StopPeek(p) ==
    /\ task[p].pc \in {"stop", "start"}
    /\ MinerFree
    /\ LET t == task[p]
           stack1 == IF t.pc = "start" THEN <<"start_prereq">> \o t.stack ELSE t.stack
       IN IF MINER = NONE
          THEN task' = [task EXCEPT ![p] = Ret([t EXCEPT !.stack = stack1], "ok")]
          ELSE task' = [task EXCEPT ![p] = [t EXCEPT !.pc = "stop_int",
                                                     !.stack = stack1,
                                                     !.child = MINER]]
    /\ out' = <<>>
    /\ sigs' = <<>>
    /\ UNCHANGED <<probe, disk, MINER, LAST_CFG, SAFE_MODE_ACTIVE, SAFE_MODE_PENDING, alive, nspawn,
                   argv, reader, poll, nlines, ncalls, lastStatus>>

\* faulty variant of StopTake: signals pid 0 when the slot is empty
StopTakeSignalsPidZero(p) ==
    /\ task[p].pc \in {"stop", "start"}
    /\ MinerFree
    /\ LET t == task[p]
           stack1 == IF t.pc = "start" THEN <<"start_prereq">> \o t.stack ELSE t.stack
       IN IF MINER = NONE
          THEN /\ task' = [task EXCEPT ![p] = Ret([t EXCEPT !.stack = stack1], "ok")]
               /\ sigs' = <<Sig("SIGINT", 0)>>
               /\ UNCHANGED MINER
          ELSE /\ task' = [task EXCEPT ![p] = [t EXCEPT !.pc = "stop_int",
                                                        !.stack = stack1,
                                                        !.child = MINER]]
               /\ sigs' = <<>>
               /\ MINER' = NONE
    /\ out' = <<>>
    /\ UNCHANGED <<probe, disk, LAST_CFG, SAFE_MODE_ACTIVE, SAFE_MODE_PENDING, alive, nspawn,
                   argv, reader, poll, nlines, ncalls, lastStatus>>

\* MINER.lock().await.take(), once the mutex is free; start() begins with the
\* same call.
StopTake(p) ==
    /\ task[p].pc \in {"stop", "start"}
    /\ MinerFree
    /\ LET t == task[p]
           stack1 == IF t.pc = "start" THEN <<"start_prereq">> \o t.stack ELSE t.stack
       IN IF MINER = NONE
          THEN /\ task' = [task EXCEPT ![p] = Ret([t EXCEPT !.stack = stack1], "ok")]
               /\ UNCHANGED MINER
          ELSE /\ task' = [task EXCEPT ![p] = [t EXCEPT !.pc = "stop_int",
                                                        !.stack = stack1,
                                                        !.child = MINER]]
               /\ MINER' = NONE
    /\ out' = <<>>
    /\ sigs' = <<>>
    /\ UNCHANGED <<probe, disk, LAST_CFG, SAFE_MODE_ACTIVE, SAFE_MODE_PENDING, alive, nspawn,
                   argv, reader, poll, nlines, ncalls, lastStatus>>

\* kill(pid, SIGINT), result dropped; then sleep(400ms)
StopInterrupt(p) ==
    /\ task[p].pc = "stop_int"
    /\ task' = [task EXCEPT ![p].pc = "stop_kill"]
    /\ sigs' = <<Sig("SIGINT", task[p].child[1])>>
    /\ out' = <<>>
    /\ UNCHANGED <<probe, disk, MINER, LAST_CFG, SAFE_MODE_ACTIVE, SAFE_MODE_PENDING, alive, nspawn,
                   argv, reader, poll, nlines, ncalls, lastStatus>>

\* faulty variant of StopKill: returns after an interrupt the child may ignore
StopKillNoWait(p) ==
    /\ task[p].pc = "stop_kill"
    /\ sigs' = <<Sig("SIGINT", task[p].child[1])>>
    /\ task' = [task EXCEPT ![p] = Ret([task[p] EXCEPT !.child = NONE], "ok")]
    /\ out' = <<>>
    /\ UNCHANGED <<probe, disk, MINER, LAST_CFG, SAFE_MODE_ACTIVE, SAFE_MODE_PENDING, alive, nspawn,
                   argv, reader, poll, nlines, ncalls, lastStatus>>

\* faulty variant of StopKill: the kill is left out when the child has exited
StopKillIfAlive(p) ==
    /\ task[p].pc = "stop_kill"
    /\ alive' = alive \ {task[p].child[1]}
    /\ sigs' = IF task[p].child[1] \in alive THEN <<Sig("SIGKILL", task[p].child[1])>>
               ELSE <<>>
    /\ task' = [task EXCEPT ![p] = Ret([task[p] EXCEPT !.child = NONE], "ok")]
    /\ out' = <<>>
    /\ UNCHANGED <<probe, disk, MINER, LAST_CFG, SAFE_MODE_ACTIVE, SAFE_MODE_PENDING, nspawn,
                   argv, reader, poll, nlines, ncalls, lastStatus>>

\* child.kill().await, result dropped: SIGKILL and wait. It fails only when the
\* child has already been reaped, so the child is gone afterwards either way.
StopKill(p) ==
    /\ task[p].pc = "stop_kill"
    /\ alive' = alive \ {task[p].child[1]}
    /\ sigs' = <<Sig("SIGKILL", task[p].child[1])>>
    /\ task' = [task EXCEPT ![p] = Ret([task[p] EXCEPT !.child = NONE], "ok")]
    /\ out' = <<>>
    /\ UNCHANGED <<probe, disk, MINER, LAST_CFG, SAFE_MODE_ACTIVE, SAFE_MODE_PENDING, nspawn,
                   argv, reader, poll, nlines, ncalls, lastStatus>>

\* ---------------------------------------------------------------- start
\* faulty variant of StartPrereqFail: the prerequisites are resolved only after
\* the child was spawned, so the failing start leaves a child behind
StartPrereqFailAfterSpawn(p) ==
    /\ task[p].pc = "start_prereq"
    /\ nspawn < MaxSpawns
    /\ nspawn' = nspawn + 1
    /\ alive' = alive \cup {nspawn + 1}
    /\ task' = [task EXCEPT ![p] = Ret(task[p], "err")]
    /\ out' = <<>>
    /\ sigs' = <<>>
    /\ UNCHANGED <<probe, disk, MINER, LAST_CFG, SAFE_MODE_ACTIVE, SAFE_MODE_PENDING,
                   argv, reader, poll, nlines, ncalls, lastStatus>>

\* AccountJson::load_from_file fails, the chain is heisenberg, or
\* ensure_node_key_for fails: start returns Err before LAST_CFG is written.
StartPrereqFail(p) ==
    /\ task[p].pc = "start_prereq"
    /\ task' = [task EXCEPT ![p] = Ret(task[p], "err")]
    /\ out' = <<>>
    /\ sigs' = <<>>
    /\ UNCHANGED <<probe, disk, MINER, LAST_CFG, SAFE_MODE_ACTIVE, SAFE_MODE_PENDING, alive, nspawn,
                   argv, reader, poll, nlines, ncalls, lastStatus>>

\* faulty variant of StartRemember: the configuration is not remembered
StartForget(p) ==
    /\ task[p].pc = "start_prereq"
    /\ task[p].cfg[1].chain # "heisenberg"
    /\ task' = [task EXCEPT ![p].pc = "start_spawn"]
    /\ out' = <<>>
    /\ sigs' = <<>>
    /\ UNCHANGED <<probe, disk, MINER, LAST_CFG, SAFE_MODE_ACTIVE, SAFE_MODE_PENDING, alive,
                   nspawn, argv, reader, poll, nlines, ncalls, lastStatus>>

\* prerequisites resolved: *LAST_CFG.lock().await = Some(cfg.clone())
StartRemember(p) ==
    /\ task[p].pc = "start_prereq"
    /\ task[p].cfg[1].chain # "heisenberg"
    /\ LAST_CFG' = task[p].cfg
    /\ task' = [task EXCEPT ![p].pc = "start_spawn"]
    /\ out' = <<>>
    /\ sigs' = <<>>
    /\ UNCHANGED <<probe, disk, MINER, SAFE_MODE_ACTIVE, SAFE_MODE_PENDING, alive, nspawn,
                   argv, reader, poll, nlines, ncalls, lastStatus>>

\* cmd.spawn() fails
StartSpawnFail(p) ==
    /\ task[p].pc = "start_spawn"
    /\ task' = [task EXCEPT ![p] = Ret(task[p], "err")]
    /\ out' = <<>>
    /\ sigs' = <<>>
    /\ UNCHANGED <<probe, disk, MINER, LAST_CFG, SAFE_MODE_ACTIVE, SAFE_MODE_PENDING, alive, nspawn,
                   argv, reader, poll, nlines, ncalls, lastStatus>>

\* cmd.spawn() succeeds: initial meta, the reader tasks, spawn_status_task
StartSpawn(p) ==
    /\ task[p].pc = "start_spawn"
    /\ nspawn < MaxSpawns
    /\ LET k == nspawn + 1 IN
       /\ nspawn' = k
       /\ alive' = alive \cup {k}
       /\ argv' = BuildArgs(task[p].cfg[1])
       /\ reader' = [reader EXCEPT ![k] = LiveReader]
       /\ task' = [task EXCEPT ![p] = [task[p] EXCEPT !.pc = "start_store",
                                                      !.child = Some(k),
                                                      !.cfg = NONE],
                               ![<<"poller", k>>] = [IdleTask EXCEPT !.pc = "poll_top",
                                                                     !.op = "poller"]]
    /\ out' = <<Ev("miner:meta", "start")>>
    /\ sigs' = <<>>
    /\ UNCHANGED <<probe, disk, MINER, LAST_CFG, SAFE_MODE_ACTIVE, SAFE_MODE_PENDING, poll, nlines,
                   ncalls, lastStatus>>

\* *MINER.lock().await = Some(child); Ok(()): waits while a stop holds the mutex
StartStore(p) ==
    /\ task[p].pc = "start_store"
    /\ MinerFree
    /\ MINER' = task[p].child
    /\ task' = [task EXCEPT ![p] = Ret([task[p] EXCEPT !.child = NONE], "ok")]
    /\ out' = <<>>
    /\ sigs' = <<>>
    /\ UNCHANGED <<probe, disk, LAST_CFG, SAFE_MODE_ACTIVE, SAFE_MODE_PENDING, alive, nspawn,
                   argv, reader, poll, nlines, ncalls, lastStatus>>

\* the child exits on its own (crash, or in reaction to SIGINT)
ChildExit(k) ==
    /\ k \in alive
    /\ alive' = alive \ {k}
    /\ out' = <<>>
    /\ sigs' = <<>>
    /\ UNCHANGED <<probe, disk, MINER, LAST_CFG, SAFE_MODE_ACTIVE, SAFE_MODE_PENDING, nspawn,
                   argv, task, reader, poll, nlines, ncalls, lastStatus>>

\* ---------------------------------------------------------------- set_safe_mode
\* faulty variant of SsmCheck: the comparison with the active flag is left out
SsmCheckAlways(p) ==
    /\ task[p].pc = "ssm_check"
    /\ task' = [task EXCEPT ![p] = [task[p] EXCEPT !.pc = "ssm_cfg"]]
    /\ out' = <<>>
    /\ sigs' = <<>>
    /\ UNCHANGED <<probe, disk, MINER, LAST_CFG, SAFE_MODE_ACTIVE, SAFE_MODE_PENDING, alive, nspawn,
                   argv, reader, poll, nlines, ncalls, lastStatus>>

\* if SAFE_MODE_ACTIVE == enable { return Ok(()) }
SsmCheck(p) ==
    /\ task[p].pc = "ssm_check"
    /\ task' = [task EXCEPT ![p] = IF SAFE_MODE_ACTIVE = task[p].enable
                                   THEN Ret(task[p], "ok")
                                   ELSE [task[p] EXCEPT !.pc = "ssm_cfg"]]
    /\ out' = <<>>
    /\ sigs' = <<>>
    /\ UNCHANGED <<probe, disk, MINER, LAST_CFG, SAFE_MODE_ACTIVE, SAFE_MODE_PENDING, alive, nspawn,
                   argv, reader, poll, nlines, ncalls, lastStatus>>

\* clone LAST_CFG (Err when None), adjust extra_args, then stop() and start(cfg)
SsmCfg(p) ==
    /\ task[p].pc = "ssm_cfg"
    /\ task' = [task EXCEPT ![p] =
         IF LAST_CFG = NONE
         THEN Ret(task[p], "err")
         ELSE [task[p] EXCEPT
                 !.cfg = Some([LAST_CFG[1] EXCEPT
                                 !.extra_args = AdjustArgs(LAST_CFG[1].extra_args,
                                                           task[p].enable)]),
                 !.pc = "stop",
                 !.stack = <<"start", "ssm_mark">> \o task[p].stack]]
    /\ out' = <<>>
    /\ sigs' = <<>>
    /\ UNCHANGED <<probe, disk, MINER, LAST_CFG, SAFE_MODE_ACTIVE, SAFE_MODE_PENDING, alive, nspawn,
                   argv, reader, poll, nlines, ncalls, lastStatus>>

\* faulty variant of SsmMark: the flag is set whatever start returned
SsmMarkAlways(p) ==
    /\ task[p].pc = "ssm_mark"
    /\ SAFE_MODE_ACTIVE' = task[p].enable
    /\ task' = [task EXCEPT ![p] = Ret(task[p], task[p].res)]
    /\ out' = <<>>
    /\ sigs' = <<>>
    /\ UNCHANGED <<probe, disk, MINER, LAST_CFG, SAFE_MODE_PENDING, alive, nspawn,
                   argv, reader, poll, nlines, ncalls, lastStatus>>

\* start(..).await?  then  *SAFE_MODE_ACTIVE.lock().await = enable
SsmMark(p) ==
    /\ task[p].pc = "ssm_mark"
    /\ IF task[p].res = "err"
       THEN /\ task' = [task EXCEPT ![p] = Ret(task[p], "err")]
            /\ UNCHANGED SAFE_MODE_ACTIVE
       ELSE /\ SAFE_MODE_ACTIVE' = task[p].enable
            /\ task' = [task EXCEPT ![p] = Ret(task[p], "ok")]
    /\ out' = <<>>
    /\ sigs' = <<>>
    /\ UNCHANGED <<probe, disk, MINER, LAST_CFG, SAFE_MODE_PENDING, alive, nspawn,
                   argv, reader, poll, nlines, ncalls, lastStatus>>

\* ---------------------------------------------------------------- status poller
\* loop top: SAFE_MODE_PENDING.lock().await.take() yields None
PollTakeNone(p) ==
    /\ task[p].pc = "poll_top"
    /\ SAFE_MODE_PENDING = NONE
    /\ task' = [task EXCEPT ![p].pc = "poll_connect"]
    /\ out' = <<>>
    /\ sigs' = <<>>
    /\ UNCHANGED <<probe, disk, MINER, LAST_CFG, SAFE_MODE_ACTIVE, SAFE_MODE_PENDING, alive, nspawn,
                   argv, reader, poll, nlines, ncalls, lastStatus>>

\* faulty variant of PollTakeSome: reads the request and leaves it in the slot
PollPeekSome(p) ==
    /\ task[p].pc = "poll_top"
    /\ SAFE_MODE_PENDING # NONE
    /\ task' = [task EXCEPT ![p] = [task[p] EXCEPT !.pc = "ssm_check",
                                                   !.stack = <<"poll_connect">>,
                                                   !.enable = SAFE_MODE_PENDING[1]]]
    /\ out' = <<>>
    /\ sigs' = <<>>
    /\ UNCHANGED <<probe, disk, MINER, LAST_CFG, SAFE_MODE_ACTIVE, SAFE_MODE_PENDING, alive, nspawn,
                   argv, reader, poll, nlines, ncalls, lastStatus>>

\* loop top: the take yields Some(pending); set_safe_mode(pending) is called
PollTakeSome(p) ==
    /\ task[p].pc = "poll_top"
    /\ SAFE_MODE_PENDING # NONE
    /\ SAFE_MODE_PENDING' = NONE
    /\ task' = [task EXCEPT ![p] = [task[p] EXCEPT !.pc = "ssm_check",
                                                   !.stack = <<"poll_connect">>,
                                                   !.enable = SAFE_MODE_PENDING[1]]]
    /\ out' = <<>>
    /\ sigs' = <<>>
    /\ UNCHANGED <<probe, disk, MINER, LAST_CFG, SAFE_MODE_ACTIVE, alive, nspawn,
                   argv, reader, poll, nlines, ncalls, lastStatus>>

Snapshot(p) == poll[p].st

\* no session and connect_async fails: emit the last-known status, sleep, continue
PollConnectFail(p) ==
    /\ task[p].pc = "poll_connect"
    /\ ~poll[p].ws_opt
    /\ out' = <<StatusEv(Snapshot(p))>>
    /\ lastStatus' = Some(Snapshot(p))
    /\ task' = [task EXCEPT ![p].pc = "poll_top"]
    /\ sigs' = <<>>
    /\ UNCHANGED <<probe, disk, MINER, LAST_CFG, SAFE_MODE_ACTIVE, SAFE_MODE_PENDING, alive, nspawn,
                   argv, reader, poll, nlines, ncalls>>

\* faulty variant of PollConnectOk: the subscription id of the lost session is kept
PollConnectOkKeepsSub(p) ==
    /\ task[p].pc = "poll_connect"
    /\ poll' = [poll EXCEPT ![p] = IF poll[p].ws_opt THEN poll[p]
                                   ELSE [poll[p] EXCEPT !.ws_opt = TRUE, !.io = "none"]]
    /\ task' = [task EXCEPT ![p].pc = "poll_sub"]
    /\ out' = <<>>
    /\ sigs' = <<>>
    /\ UNCHANGED <<probe, disk, MINER, LAST_CFG, SAFE_MODE_ACTIVE, SAFE_MODE_PENDING, alive, nspawn,
                   argv, reader, nlines, ncalls, lastStatus>>

\* connect_async succeeds (ws_opt = Some(ws); sub_id = None), or a session exists
PollConnectOk(p) ==
    /\ task[p].pc = "poll_connect"
    /\ poll' = [poll EXCEPT ![p] = IF poll[p].ws_opt THEN poll[p]
                                   ELSE [poll[p] EXCEPT !.ws_opt = TRUE, !.sub_id = FALSE,
                                                        !.io = "none"]]
    /\ task' = [task EXCEPT ![p].pc = "poll_sub"]
    /\ out' = <<>>
    /\ sigs' = <<>>
    /\ UNCHANGED <<probe, disk, MINER, LAST_CFG, SAFE_MODE_ACTIVE, SAFE_MODE_PENDING, alive, nspawn,
                   argv, reader, nlines, ncalls, lastStatus>>

\* what ws.next() under a timeout can yield besides a text message: the timeout
\* elapses, the stream has ended (None), or the transport reports an error
ReadFailures == {"timeout", "closed", "read_err"}

\* ------------------------------------------------------------- JSON-RPC replies
\* A serde_json::Value as far as the poller looks into it: a number (an
\* unsigned, a negative or a fractional one), a string of characters, a
\* boolean, or something else (null, array, object).
JNum(n) == [kind |-> "number", int |-> TRUE, n |-> n, s |-> <<>>, b |-> FALSE]
JFrac == [kind |-> "number", int |-> FALSE, n |-> 1, s |-> <<>>, b |-> FALSE]
JStr(s) == [kind |-> "string", int |-> FALSE, n |-> 0, s |-> s, b |-> FALSE]
JBool(b) == [kind |-> "bool", int |-> FALSE, n |-> 0, s |-> <<>>, b |-> b]
JNull == [kind |-> "null", int |-> FALSE, n |-> 0, s |-> <<>>, b |-> FALSE]

\* the strings a "number" field is tried with: decimal, padded, 0x-prefixed,
\* a bare prefix, a prefix with a non-digit, a word, the empty string
NumberStrings == {<<"1">>, <<" ", "2", " ">>, <<"0", "x", "2">>, <<"0", "x">>,
                  <<"0", "x", "g">>, <<"g">>, <<>>}
JsonVals(nums) ==
    {JNum(n) : n \in nums \cup {0 - 1}} \cup {JFrac, JNull}
      \cup {JStr(s) : s \in NumberStrings} \cup {JBool(b) : b \in BOOLEAN}

\* Value::as_u64, Value::as_bool, Value::as_str
as_u64(v) == IF v.kind = "number" /\ v.int /\ v.n >= 0 THEN Some(v.n) ELSE NONE
as_bool(v) == IF v.kind = "bool" THEN Some(v.b) ELSE NONE
as_str(v) == IF v.kind = "string" THEN Some(v.s) ELSE NONE

\* str::trim on a string of characters
RECURSIVE trim_ws(_)
trim_ws(v) ==
    IF v = <<>> THEN v
    ELSE IF Head(v) = " " THEN trim_ws(Tail(v))
    ELSE IF v[Len(v)] = " " THEN trim_ws(SubSeq(v, 1, Len(v) - 1))
    ELSE v

\* char::to_digit: the value of a character in the radix, 0 - 1 if it has none
to_digit(c, radix) ==
    LET d == CASE c = "0" -> 0 [] c = "1" -> 1 [] c = "2" -> 2 [] c = "a" -> 10
               [] OTHER -> 0 - 1
    IN IF d < radix THEN d ELSE 0 - 1

RECURSIVE radix_value(_, _)
radix_value(v, radix) ==
    IF v = <<>> THEN 0
    ELSE radix * radix_value(SubSeq(v, 1, Len(v) - 1), radix) + to_digit(v[Len(v)], radix)

\* u64::from_str_radix(..).ok(): one or more digits of the radix and nothing else
from_str_radix(v, radix) ==
    IF v # <<>> /\ \A i \in 1..Len(v) : to_digit(v[i], radix) >= 0
    THEN Some(radix_value(v, radix)) ELSE NONE

\* a JSON number, or a string holding a decimal or 0x-prefixed number
parse_u64_from_json(v) ==
    CASE v.kind = "number" -> as_u64(v)
      [] v.kind = "string" ->
           LET t == trim_ws(v.s)
           IN IF Len(t) >= 2 /\ SubSeq(t, 1, 2) = <<"0", "x">>
              THEN from_str_radix(SubSeq(t, 3, Len(t)), 16)
              ELSE from_str_radix(t, 10)
      [] OTHER -> NONE

\* a member of a JSON object that may be missing
Member(vals) == {NONE} \cup {Some(v) : v \in vals}

\* the text answering chain_subscribeNewHeads: not JSON, or JSON with or
\* without a "result"
SubReplies ==
    [json : {FALSE}, result : {NONE}]
      \cup [json : {TRUE}, result : Member(JsonVals({}))]

\* the subscription id in the reply, if any
sub_id_of(r) == IF r.json /\ r.result # NONE THEN as_str(r.result[1]) ELSE NONE

\* a text read in the loop: not JSON, or JSON whose "params.result" and "result"
\* are each missing or a head, a head being given by its "number" member
HeadReplies ==
    [json : {FALSE}, params_result : {NONE}, result : {NONE}]
      \cup [json : {TRUE}, params_result : Member(Member(JsonVals(Heads))),
            result : Member(Member(JsonVals(Heads)))]

\* the head number the loop takes from a text, if any
head_number(r) ==
    IF ~r.json THEN NONE
    ELSE LET head == IF r.params_result # NONE THEN r.params_result[1]
                     ELSE IF r.result # NONE THEN r.result[1]
                     ELSE NONE
         IN IF head = NONE THEN NONE ELSE parse_u64_from_json(head[1])

\* the text answering system_health: not JSON, JSON without "result", or a
\* result whose "peers" and "isSyncing" are each missing or some value
HealthReplies ==
    [json : BOOLEAN, result : {FALSE}, peers : {NONE}, isSyncing : {NONE}]
      \cup [json : {TRUE}, result : {TRUE}, peers : Member(JsonVals(PeerCounts)),
            isSyncing : Member(JsonVals({}))]

health_peers(r) ==
    IF r.json /\ r.result /\ r.peers # NONE THEN as_u64(r.peers[1]) ELSE NONE
health_syncing(r) ==
    IF r.json /\ r.result /\ r.isSyncing # NONE THEN as_bool(r.isSyncing[1]) ELSE NONE

\* how a reply that was read is recorded: "ok" if everything looked for was
\* found, otherwise what was not
HealthIo(pe, sy) ==
    IF pe # NONE /\ sy # NONE THEN "ok"
    ELSE IF pe # NONE THEN "bad_syncing"
    ELSE IF sy # NONE THEN "bad_peers"
    ELSE "malformed"

Malformed == {"malformed", "bad_peers", "bad_syncing"}

\* ensure the subscription: the send fails and the session is dropped; or the
\* reply within 1500 ms is a text that carries a subscription id or does not; or
\* no text arrives, which the `if let` passes over
PollSubscribe(p) ==
    /\ task[p].pc = "poll_sub"
    /\ \/ /\ poll[p].sub_id
          /\ poll' = [poll EXCEPT ![p].io = "none"]
          /\ task' = [task EXCEPT ![p].pc = "poll_read"]
       \/ /\ ~poll[p].sub_id
          /\ poll' = [poll EXCEPT ![p].ws_opt = FALSE, ![p].io = "send_err"]
          /\ task' = [task EXCEPT ![p].pc = "poll_top"]
       \/ /\ ~poll[p].sub_id
          /\ \E r \in SubReplies :
               poll' = [poll EXCEPT ![p] =
                          IF sub_id_of(r) # NONE
                          THEN [poll[p] EXCEPT !.sub_id = TRUE, !.io = "ok"]
                          ELSE [poll[p] EXCEPT !.io = "malformed"]]
          /\ task' = [task EXCEPT ![p].pc = "poll_read"]
       \/ /\ ~poll[p].sub_id
          /\ \E f \in ReadFailures : poll' = [poll EXCEPT ![p].io = f]
          /\ task' = [task EXCEPT ![p].pc = "poll_read"]
    /\ out' = <<>>
    /\ sigs' = <<>>
    /\ UNCHANGED <<probe, disk, MINER, LAST_CFG, SAFE_MODE_ACTIVE, SAFE_MODE_PENDING, alive, nspawn,
                   argv, reader, nlines, ncalls, lastStatus>>

\* the locals after a text read in the loop
HeadUpdate(l, r) ==
    LET n == head_number(r)
    IN IF n = NONE THEN [l EXCEPT !.got_update = FALSE, !.io = "malformed"]
       ELSE IF l.st.current_block # n
       THEN [l EXCEPT !.st.current_block = n, !.got_update = TRUE, !.io = "ok"]
       ELSE [l EXCEPT !.got_update = FALSE, !.io = "ok"]

\* faulty variant of PollRead: a text without a head number drops the session
PollReadStrict(p) ==
    /\ task[p].pc = "poll_read"
    /\ \/ /\ \E f \in {"timeout", "closed", "other_msg"} :
               poll' = [poll EXCEPT ![p].got_update = FALSE, ![p].io = f]
          /\ task' = [task EXCEPT ![p].pc = "poll_health"]
       \/ /\ \E r \in HeadReplies :
               /\ poll' = [poll EXCEPT ![p] =
                             IF head_number(r) = NONE
                             THEN [HeadUpdate(poll[p], r) EXCEPT !.ws_opt = FALSE]
                             ELSE HeadUpdate(poll[p], r)]
               /\ task' = [task EXCEPT ![p].pc =
                             IF head_number(r) = NONE THEN "poll_top" ELSE "poll_health"]
       \/ /\ poll' = [poll EXCEPT ![p].ws_opt = FALSE, ![p].got_update = FALSE,
                                   ![p].io = "read_err"]
          /\ task' = [task EXCEPT ![p].pc = "poll_top"]
    /\ out' = <<>>
    /\ sigs' = <<>>
    /\ UNCHANGED <<probe, disk, MINER, LAST_CFG, SAFE_MODE_ACTIVE, SAFE_MODE_PENDING, alive, nspawn,
                   argv, reader, nlines, ncalls, lastStatus>>

\* let mut got_update = false; read one message with a 400 ms timeout: the
\* timeout elapses or the stream has ended (the `if let` passes over both), a
\* message that is no text (`Ok(_) => {}`), a text, or a transport error
PollRead(p) ==
    /\ task[p].pc = "poll_read"
    /\ \/ /\ \E f \in {"timeout", "closed", "other_msg"} :
               poll' = [poll EXCEPT ![p].got_update = FALSE, ![p].io = f]
          /\ task' = [task EXCEPT ![p].pc = "poll_health"]
       \/ /\ \E r \in HeadReplies : poll' = [poll EXCEPT ![p] = HeadUpdate(poll[p], r)]
          /\ task' = [task EXCEPT ![p].pc = "poll_health"]
       \/ /\ poll' = [poll EXCEPT ![p].ws_opt = FALSE, ![p].got_update = FALSE,
                                   ![p].io = "read_err"]
          /\ task' = [task EXCEPT ![p].pc = "poll_top"]
    /\ out' = <<>>
    /\ sigs' = <<>>
    /\ UNCHANGED <<probe, disk, MINER, LAST_CFG, SAFE_MODE_ACTIVE, SAFE_MODE_PENDING, alive, nspawn,
                   argv, reader, nlines, ncalls, lastStatus>>

\* the locals after a system_health reply carrying peers pe and isSyncing sy
\* (each an Option: the field may be missing or of another type)
HealthUpdate(l, pe, sy) ==
    LET l1 == IF pe # NONE /\ l.st.peers # pe
              THEN [l EXCEPT !.st.peers = pe, !.got_update = TRUE] ELSE l
    IN IF sy # NONE /\ l1.st.is_syncing # sy
       THEN [l1 EXCEPT !.st.is_syncing = sy, !.got_update = TRUE] ELSE l1

\* tick = tick.wrapping_add(1); every 5th tick system_health is polled: the
\* result of the send is dropped (`let _ =`), and the reply is used only if a
\* text arrives within 600 ms
PollHealth(p) ==
    /\ task[p].pc = "poll_health"
    /\ poll[p].tick < MaxTicks
    /\ LET l == [poll[p] EXCEPT !.tick = poll[p].tick + 1] IN
       IF l.tick % 5 = 0
       THEN \/ \E r \in HealthReplies :
                 LET pe == health_peers(r)
                     sy == health_syncing(r)
                 IN poll' = [poll EXCEPT ![p] =
                               [HealthUpdate(l, pe, sy) EXCEPT !.io = HealthIo(pe, sy)]]
            \/ \E f \in ReadFailures \cup {"send_err"} :
                 poll' = [poll EXCEPT ![p] = [l EXCEPT !.io = f]]
       ELSE poll' = [poll EXCEPT ![p] = [l EXCEPT !.io = "none"]]
    /\ task' = [task EXCEPT ![p].pc = "poll_boot"]
    /\ out' = <<>>
    /\ sigs' = <<>>
    /\ UNCHANGED <<probe, disk, MINER, LAST_CFG, SAFE_MODE_ACTIVE, SAFE_MODE_PENDING, alive, nspawn,
                   argv, reader, nlines, ncalls, lastStatus>>

Max(a, b) == IF a >= b THEN a ELSE b

\* the locals after the bootnode's first head notification carries number num
BootUpdate(l, num) ==
    LET new_h == IF l.st.highest_block = NONE THEN Some(num)
                 ELSE Some(Max(l.st.highest_block[1], num))
    IN IF new_h # l.st.highest_block
       THEN [l EXCEPT !.st.highest_block = new_h, !.got_update = TRUE] ELSE l

\* the ways a bootnode sampling ends without a head number: connect_async fails,
\* the send fails (its result is dropped and the reads that follow yield nothing),
\* a read times out or fails, the notification is malformed
BootFailures == {"connect", "send", "timeout", "malformed"}

\* faulty variant of PollBoot: a failed sampling drops the local session
PollBootDropsSession(p) ==
    /\ task[p].pc = "poll_boot"
    /\ \/ /\ ~(poll[p].tick % 10 = 0 /\ LAST_CFG # NONE
               /\ bootnode_ws_for_chain(LAST_CFG[1].chain) # NONE)
          /\ UNCHANGED poll
       \/ /\ poll[p].tick % 10 = 0
          /\ LAST_CFG # NONE
          /\ bootnode_ws_for_chain(LAST_CFG[1].chain) # NONE
          /\ \/ \E f \in BootFailures :
                  poll' = [poll EXCEPT ![p].boot = f, ![p].ws_opt = FALSE]
             \/ \E num \in Heads :
                  poll' = [poll EXCEPT ![p] = [BootUpdate(poll[p], num) EXCEPT !.boot = "ok"]]
    /\ task' = [task EXCEPT ![p].pc = "poll_publish"]
    /\ out' = <<>>
    /\ sigs' = <<>>
    /\ UNCHANGED <<probe, disk, MINER, LAST_CFG, SAFE_MODE_ACTIVE, SAFE_MODE_PENDING, alive, nspawn,
                   argv, reader, nlines, ncalls, lastStatus>>

\* every 10th tick, if a configuration is remembered and its chain has a
\* bootnode, the bootnode is asked for its head over a connection of its own;
\* every failure on the way is passed over
PollBoot(p) ==
    /\ task[p].pc = "poll_boot"
    /\ \/ /\ ~(poll[p].tick % 10 = 0 /\ LAST_CFG # NONE
               /\ bootnode_ws_for_chain(LAST_CFG[1].chain) # NONE)
          /\ UNCHANGED poll
       \/ /\ poll[p].tick % 10 = 0
          /\ LAST_CFG # NONE
          /\ bootnode_ws_for_chain(LAST_CFG[1].chain) # NONE
          /\ \/ \E f \in BootFailures : poll' = [poll EXCEPT ![p].boot = f]
             \/ \E num \in Heads :
                  poll' = [poll EXCEPT ![p] = [BootUpdate(poll[p], num) EXCEPT !.boot = "ok"]]
    /\ task' = [task EXCEPT ![p].pc = "poll_publish"]
    /\ out' = <<>>
    /\ sigs' = <<>>
    /\ UNCHANGED <<probe, disk, MINER, LAST_CFG, SAFE_MODE_ACTIVE, SAFE_MODE_PENDING, alive, nspawn,
                   argv, reader, nlines, ncalls, lastStatus>>

\* faulty variant of PollPublish: publishes whether or not anything changed
PollPublishAlways(p) ==
    /\ task[p].pc = "poll_publish"
    /\ out' = <<StatusEv(Snapshot(p))>>
    /\ lastStatus' = Some(Snapshot(p))
    /\ poll' = [poll EXCEPT ![p].got_update = FALSE, ![p].boot = "none"]
    /\ task' = [task EXCEPT ![p].pc = "poll_top"]
    /\ sigs' = <<>>
    /\ UNCHANGED <<probe, disk, MINER, LAST_CFG, SAFE_MODE_ACTIVE, SAFE_MODE_PENDING, alive, nspawn,
                   argv, reader, nlines, ncalls>>

\* if got_update { emit "miner:status" }
PollPublish(p) ==
    /\ task[p].pc = "poll_publish"
    /\ IF poll[p].got_update
       THEN /\ out' = <<StatusEv(Snapshot(p))>>
            /\ lastStatus' = Some(Snapshot(p))
       ELSE /\ out' = <<>>
            /\ UNCHANGED lastStatus
    /\ poll' = [poll EXCEPT ![p].got_update = FALSE, ![p].boot = "none"]
    /\ task' = [task EXCEPT ![p].pc = "poll_top"]
    /\ sigs' = <<>>
    /\ UNCHANGED <<probe, disk, MINER, LAST_CFG, SAFE_MODE_ACTIVE, SAFE_MODE_PENDING, alive, nspawn,
                   argv, reader, nlines, ncalls>>

\* ---------------------------------------------------------------- stderr reader
\* next_line() yields a line without "importing block #<digits>" (a line may be
\* read after the child that wrote it has died: the pipe buffers it)
ReadOther(k) ==
    /\ reader[k].pc = "read"
    /\ out' = <<Ev("miner:log", "stderr")>>
    /\ sigs' = <<>>
    /\ UNCHANGED <<probe, disk, MINER, LAST_CFG, SAFE_MODE_ACTIVE, SAFE_MODE_PENDING, alive, nspawn,
                   argv, task, reader, poll, nlines, ncalls, lastStatus>>

\* next_line() yields "... Importing block #n ..."; the chain is read from LAST_CFG
ReadImport(k, n) ==
    /\ reader[k].pc = "read"
    /\ nlines < MaxLines
    /\ nlines' = nlines + 1
    /\ reader' = [reader EXCEPT ![k] =
         IF LAST_CFG = NONE
         THEN reader[k]
         ELSE [reader[k] EXCEPT !.pc = "rd_active", !.block = n,
                                !.chain = LAST_CFG[1].chain]]
    /\ out' = <<Ev("miner:log", "stderr")>>
    /\ sigs' = <<>>
    /\ UNCHANGED <<probe, disk, MINER, LAST_CFG, SAFE_MODE_ACTIVE, SAFE_MODE_PENDING, alive, nspawn,
                   argv, task, poll, ncalls, lastStatus>>

\* let active_now = { *SAFE_MODE_ACTIVE.lock().await };
ReadActive(k) ==
    /\ reader[k].pc = "rd_active"
    /\ reader' = [reader EXCEPT ![k] = [reader[k] EXCEPT !.pc = "rd_decide",
                                                         !.active_now = SAFE_MODE_ACTIVE]]
    /\ out' = <<>>
    /\ sigs' = <<>>
    /\ UNCHANGED <<probe, disk, MINER, LAST_CFG, SAFE_MODE_ACTIVE, SAFE_MODE_PENDING, alive, nspawn,
                   argv, task, poll, nlines, ncalls, lastStatus>>

\* faulty variant of Decision: enable only inside a range, not past its end
Decision_in_range_only(ranges, n, active_now) ==
    IF ~active_now /\ in_range(ranges, n) THEN Some(TRUE)
    ELSE IF active_now /\ past_all(ranges, n) THEN Some(FALSE)
    ELSE NONE

\* what the reader requests for block n on a chain with these ranges
Decision(ranges, n, active_now) ==
    IF ~active_now /\ (in_range(ranges, n) \/ approaching(ranges, n)) THEN Some(TRUE)
    ELSE IF active_now /\ past_all(ranges, n) THEN Some(FALSE)
    ELSE NONE

\* the if / else-if that writes SAFE_MODE_PENDING
ReadDecide(k) ==
    /\ reader[k].pc = "rd_decide"
    /\ LET d == Decision(RangesFor(reader[k].chain), reader[k].block, reader[k].active_now)
       IN IF d = NONE
          THEN /\ UNCHANGED SAFE_MODE_PENDING
               /\ out' = <<>>
          ELSE /\ SAFE_MODE_PENDING' = d
               /\ out' = <<ToggleLog(d[1], reader[k].block)>>
    /\ reader' = [reader EXCEPT ![k] = [reader[k] EXCEPT !.pc = "read", !.block = 0,
                                                         !.chain = "", !.active_now = FALSE]]
    /\ sigs' = <<>>
    /\ UNCHANGED <<probe, disk, MINER, LAST_CFG, SAFE_MODE_ACTIVE, alive, nspawn,
                   argv, task, poll, nlines, ncalls, lastStatus>>

\* faulty variant of ReadEof: the loop does not leave on None and polls again
ReadEofSpins(k) ==
    /\ reader[k].pc = "read"
    /\ k \notin alive
    /\ reader' = [reader EXCEPT ![k].pc = "read"]
    /\ out' = <<>>
    /\ sigs' = <<>>
    /\ UNCHANGED <<probe, disk, MINER, LAST_CFG, SAFE_MODE_ACTIVE, SAFE_MODE_PENDING, alive, nspawn,
                   argv, task, poll, nlines, ncalls, lastStatus>>

\* the child is gone and its stderr is closed: next_line() yields None
ReadEof(k) ==
    /\ reader[k].pc = "read"
    /\ k \notin alive
    /\ reader' = [reader EXCEPT ![k].pc = "eof"]
    /\ out' = <<>>
    /\ sigs' = <<>>
    /\ UNCHANGED <<probe, disk, MINER, LAST_CFG, SAFE_MODE_ACTIVE, SAFE_MODE_PENDING, alive, nspawn,
                   argv, task, poll, nlines, ncalls, lastStatus>>

\* ---------------------------------------------------------------- stdout reader
\* next_line() yields a line: it is published as a "stdout" log line
StdoutLine(k) ==
    /\ reader[k].stdout = "read"
    /\ out' = <<Ev("miner:log", "stdout")>>
    /\ sigs' = <<>>
    /\ UNCHANGED <<probe, disk, MINER, LAST_CFG, SAFE_MODE_ACTIVE, SAFE_MODE_PENDING, alive, nspawn,
                   argv, task, reader, poll, nlines, ncalls, lastStatus>>

\* the child is gone and its stdout is closed: next_line() yields None
StdoutEof(k) ==
    /\ reader[k].stdout = "read"
    /\ k \notin alive
    /\ reader' = [reader EXCEPT ![k].stdout = "eof"]
    /\ out' = <<>>
    /\ sigs' = <<>>
    /\ UNCHANGED <<probe, disk, MINER, LAST_CFG, SAFE_MODE_ACTIVE, SAFE_MODE_PENDING, alive, nspawn,
                   argv, task, poll, nlines, ncalls, lastStatus>>

\* ---------------------------------------------------------------- specifications
StopStep(p) == StopTake(p) \/ StopInterrupt(p) \/ StopKill(p)

StartStep(p) ==
    \/ StartPrereqFail(p)
    \/ StartRemember(p)
    \/ StartSpawnFail(p)
    \/ StartSpawn(p)
    \/ StartStore(p)

SsmStep(p) == SsmCheck(p) \/ SsmCfg(p) \/ SsmMark(p)

ImportStep(k) ==
    \/ \E n \in Blocks : ReadImport(k, n)
    \/ ReadActive(k)
    \/ ReadDecide(k)

\* No call of start, stop or set_safe_mode is in progress.
Quiescent == \A p \in Procs : task[p].pc \in {"idle", "unborn", "poll_top", "poll_connect"}

\* Spec: the command surface under concurrency. Command tasks call start and stop
\* at will and their steps interleave; the node logs no import line, so the
\* pollers find no toggle to execute.
Next ==
    \/ \E p \in Cmds, cfg \in Configs : CmdStart(p, cfg)
    \/ \E p \in Cmds : CmdStop(p)
    \/ \E p \in Cmds : CmdDone(p)
    \/ \E p \in Cmds : StopStep(p) \/ StartStep(p)
    \/ \E p \in Pollers : PollTakeNone(p) \/ PollConnectFail(p)
    \/ \E k \in Children : ReadOther(k) \/ ReadEof(k)
    \/ \E k \in Children : ChildExit(k)

Spec == Init /\ [][Next]_vars

\* ------------------------------------------------- repair_and_restart / unlock
Disks == [db : BOOLEAN, lock : BOOLEAN]
UiLog(text) == [topic |-> "miner:log", source |-> "ui", status |-> NONE, line |-> Some(text)]

\* a command task calls miner::repair_and_restart (commands.rs)
CmdRepair(p) ==
    /\ p \in Cmds /\ task[p].pc = "idle"
    /\ ncalls < MaxCalls
    /\ ncalls' = ncalls + 1
    /\ task' = [task EXCEPT ![p] = [IdleTask EXCEPT !.pc = "repair", !.stack = <<"done">>,
                                                     !.op = "repair"]]
    /\ out' = <<>>
    /\ sigs' = <<>>
    /\ UNCHANGED <<probe, disk, MINER, LAST_CFG, SAFE_MODE_ACTIVE, SAFE_MODE_PENDING, alive,
                   nspawn, argv, reader, poll, nlines, lastStatus>>

\* a command task calls miner::unlock_and_restart (commands.rs)
CmdUnlock(p) ==
    /\ p \in Cmds /\ task[p].pc = "idle"
    /\ ncalls < MaxCalls
    /\ ncalls' = ncalls + 1
    /\ task' = [task EXCEPT ![p] = [IdleTask EXCEPT !.pc = "unlock", !.stack = <<"done">>,
                                                     !.op = "unlock"]]
    /\ out' = <<>>
    /\ sigs' = <<>>
    /\ UNCHANGED <<probe, disk, MINER, LAST_CFG, SAFE_MODE_ACTIVE, SAFE_MODE_PENDING, alive,
                   nspawn, argv, reader, poll, nlines, lastStatus>>

\* faulty variant of RestartCfg: the database and the lock are removed before the
\* remembered configuration is looked at
RestartCfgRemovesFirst(p) ==
    /\ task[p].pc \in {"repair", "unlock"}
    /\ disk' = IF task[p].pc = "repair" THEN [disk EXCEPT !.db = FALSE]
                                        ELSE [disk EXCEPT !.lock = FALSE]
    /\ IF LAST_CFG = NONE
       THEN /\ task' = [task EXCEPT ![p] = Ret(task[p], "err")]
            /\ out' = <<>>
       ELSE /\ task' = [task EXCEPT ![p] =
                 [task[p] EXCEPT !.cfg = LAST_CFG, !.pc = "stop",
                                 !.stack = <<IF task[p].pc = "repair" THEN "repair_wipe"
                                             ELSE "unlock_remove">> \o task[p].stack]]
            /\ out' = <<UiLog(IF task[p].pc = "repair" THEN "stopping to repair"
                              ELSE "unlock requested")>>
    /\ sigs' = <<>>
    /\ UNCHANGED <<probe, MINER, LAST_CFG, SAFE_MODE_ACTIVE, SAFE_MODE_PENDING, alive,
                   nspawn, argv, reader, poll, nlines, ncalls, lastStatus>>

\* the head of both functions: clone LAST_CFG or return Err; then (node_base_path
\* may fail as well) log to the UI and call stop()
RestartCfg(p) ==
    /\ task[p].pc \in {"repair", "unlock"}
    /\ \/ /\ LAST_CFG = NONE
          /\ task' = [task EXCEPT ![p] = Ret(task[p], "err")]
          /\ out' = <<>>
       \/ /\ LAST_CFG # NONE
          /\ task' = [task EXCEPT ![p] = Ret(task[p], "err")]
          /\ out' = <<>>
       \/ /\ LAST_CFG # NONE
          /\ task' = [task EXCEPT ![p] =
               [task[p] EXCEPT !.cfg = LAST_CFG, !.pc = "stop",
                               !.stack = <<IF task[p].pc = "repair" THEN "repair_wipe"
                                           ELSE "unlock_remove">> \o task[p].stack]]
          /\ out' = <<UiLog(IF task[p].pc = "repair" THEN "stopping to repair"
                            ELSE "unlock requested")>>
    /\ sigs' = <<>>
    /\ UNCHANGED <<probe, disk, MINER, LAST_CFG, SAFE_MODE_ACTIVE, SAFE_MODE_PENDING, alive,
                   nspawn, argv, reader, poll, nlines, ncalls, lastStatus>>

\* faulty variant of RepairWipe: a failed removal is passed over and the node
\* is restarted on the database it could not remove
RepairWipeRestartsAnyway(p) ==
    /\ task[p].pc = "repair_wipe"
    /\ \/ /\ disk.db
          /\ disk' = disk
       \/ disk' = [disk EXCEPT !.db = FALSE]
    /\ task' = [task EXCEPT ![p].pc = "start"]
    /\ out' = <<UiLog("database wiped")>>
    /\ sigs' = <<>>
    /\ UNCHANGED <<probe, MINER, LAST_CFG, SAFE_MODE_ACTIVE, SAFE_MODE_PENDING, alive,
                   nspawn, argv, reader, poll, nlines, ncalls, lastStatus>>

\* faulty variant of UnlockRemove: a missing LOCK file is the function's error
UnlockRemoveRequiresLock(p) ==
    /\ task[p].pc = "unlock_remove"
    /\ \/ /\ disk' = disk
          /\ task' = [task EXCEPT ![p] = Ret(task[p], "err")]
          /\ out' = <<>>
       \/ /\ disk.lock
          /\ disk' = [disk EXCEPT !.lock = FALSE]
          /\ task' = [task EXCEPT ![p].pc = "start"]
          /\ out' = <<UiLog("lock removed")>>
    /\ sigs' = <<>>
    /\ UNCHANGED <<probe, MINER, LAST_CFG, SAFE_MODE_ACTIVE, SAFE_MODE_PENDING, alive,
                   nspawn, argv, reader, poll, nlines, ncalls, lastStatus>>

\* repair, after stop(): remove_dir_all(db) if it exists (its failure is the
\* function's error), log, then start(cfg)
RepairWipe(p) ==
    /\ task[p].pc = "repair_wipe"
    /\ \/ /\ disk.db
          /\ disk' = disk
          /\ task' = [task EXCEPT ![p] = Ret(task[p], "err")]
          /\ out' = <<>>
       \/ /\ disk' = [disk EXCEPT !.db = FALSE]
          /\ task' = [task EXCEPT ![p].pc = "start"]
          /\ out' = <<UiLog("database wiped")>>
    /\ sigs' = <<>>
    /\ UNCHANGED <<probe, MINER, LAST_CFG, SAFE_MODE_ACTIVE, SAFE_MODE_PENDING, alive,
                   nspawn, argv, reader, poll, nlines, ncalls, lastStatus>>

\* unlock, after stop(): remove_file(LOCK) if it exists (its failure is the
\* function's error), log either way, then start(cfg)
UnlockRemove(p) ==
    /\ task[p].pc = "unlock_remove"
    /\ \/ /\ disk.lock
          /\ disk' = disk
          /\ task' = [task EXCEPT ![p] = Ret(task[p], "err")]
          /\ out' = <<>>
       \/ /\ disk' = [disk EXCEPT !.lock = FALSE]
          /\ task' = [task EXCEPT ![p].pc = "start"]
          /\ out' = <<UiLog(IF disk.lock THEN "lock removed" ELSE "no lock found")>>
    /\ sigs' = <<>>
    /\ UNCHANGED <<probe, MINER, LAST_CFG, SAFE_MODE_ACTIVE, SAFE_MODE_PENDING, alive,
                   nspawn, argv, reader, poll, nlines, ncalls, lastStatus>>

RestartStep(p) == RestartCfg(p) \/ RepairWipe(p) \/ UnlockRemove(p)

\* SpecSeq: the commands used one at a time: every start or stop call completes
\* before the next one begins; the child may exit on its own at any moment. No
\* import line is logged, so no toggle is requested.
SeqCmds == {<<"cmd", 1>>}

NextSeq ==
    \/ \E p \in SeqCmds, cfg \in Configs : Quiescent /\ CmdStart(p, cfg)
    \/ \E p \in SeqCmds : Quiescent /\ CmdStop(p)
    \/ \E p \in SeqCmds : CmdDone(p)
    \/ \E p \in SeqCmds : StopStep(p) \/ StartStep(p)
    \/ \E k \in Children : ChildExit(k)

SpecSeq == Init /\ [][NextSeq]_vars

\* SpecEof: as SpecSeq, with both reader tasks of every child taking in lines
\* (none of them an import line) until their streams end. SpecEofLive: a stream
\* whose child is gone holds finitely many buffered lines, so the read that
\* yields None comes in the end.
NextEof ==
    \/ NextSeq
    \/ \E k \in Children : ReadOther(k)
    \/ \E k \in Children : ReadEof(k)
    \/ \E k \in Children : StdoutLine(k)
    \/ \E k \in Children : StdoutEof(k)

SpecEof == Init /\ [][NextEof]_vars

SpecEofLive ==
    SpecEof /\ \A k \in Children : WF_vars(ReadEof(k)) /\ WF_vars(StdoutEof(k))

\* SpecRepair: as SpecSeq, with the repair and unlock commands, over any state
\* of the node's database directory.
InitRepair == StoppedTasks /\ disk \in Disks /\ probe = NONE

NextRepair ==
    \/ \E p \in SeqCmds, cfg \in Configs : Quiescent /\ CmdStart(p, cfg)
    \/ \E p \in SeqCmds : Quiescent /\ (CmdStop(p) \/ CmdRepair(p) \/ CmdUnlock(p))
    \/ \E p \in SeqCmds : CmdDone(p)
    \/ \E p \in SeqCmds : StopStep(p) \/ StartStep(p) \/ RestartStep(p)
    \/ \E k \in Children : ChildExit(k)

SpecRepair == InitRepair /\ [][NextRepair]_vars

\* SpecSeqAuto: as SpecSeq, with the readers taking in import lines and the
\* pollers executing the toggles, each set_safe_mode call serialized with the
\* commands and with the other pollers' calls.
NextSeqAuto ==
    \/ NextSeq
    \/ \E p \in Pollers : StopStep(p) \/ StartStep(p) \/ SsmStep(p)
    \/ \E p \in Pollers : (Quiescent /\ PollTakeSome(p)) \/ PollConnectFail(p)
    \/ \E k \in Children : ImportStep(k)

SpecSeqAuto == Init /\ [][NextSeqAuto]_vars

\* SpecAuto: one session left to itself: the state right after a successful
\* start(cfg0), then only the readers, the pollers and the children act. A poller
\* iteration that finds no toggle changes nothing but the status side, which
\* SpecStatus covers.
InitSession ==
    /\ \E cfg0 \in {c \in Configs : c.chain # "heisenberg"} :
         /\ LAST_CFG = Some(cfg0)
         /\ argv = BuildArgs(cfg0)
    /\ MINER = Some(1)
    /\ SAFE_MODE_ACTIVE = FALSE
    /\ SAFE_MODE_PENDING = NONE
    /\ alive = {1}
    /\ nspawn = 1
    /\ task = [p \in Procs |-> IF p = <<"poller", 1>>
                               THEN [IdleTask EXCEPT !.pc = "poll_top", !.op = "poller"]
                               ELSE IF p \in Cmds THEN IdleTask ELSE UnbornTask]
    /\ reader = [k \in Children |-> IF k = 1 THEN LiveReader
                                    ELSE NoReader]
    /\ poll = [p \in Pollers |-> NoPoll]
    /\ out = <<>>
    /\ sigs = <<>>
    /\ nlines = 0
    /\ ncalls = 1
    /\ lastStatus = NONE

InitAuto == InitSession /\ probe = NONE /\ disk = NoDisk

NextAuto ==
    \/ \E p \in Pollers : StopStep(p) \/ StartStep(p) \/ SsmStep(p)
    \/ \E p \in Pollers : PollTakeSome(p) \/ PollConnectFail(p)
    \/ \E k \in Children : ImportStep(k)
    \/ \E k \in Children : ChildExit(k)

SpecAuto == InitAuto /\ [][NextAuto]_vars

\* ------------------------------------------------------------------ the mutexes
\* what the stderr reader k is about to write into SAFE_MODE_PENDING
ReaderRequest(k) ==
    Decision(RangesFor(reader[k].chain), reader[k].block, reader[k].active_now)

\* SpecLocks: one session after a successful start, with everything that asks
\* for a mutex running at once: the pollers taking requests and toggling, the
\* readers writing requests, and a command task calling start or stop. The
\* status side of the pollers, which asks for LAST_CFG alone, is left out.
InitLocks ==
    /\ InitSession
    /\ disk = NoDisk
    /\ \E g \in GuardLifetimes : probe = Some([guard |-> g])

\* a height that makes the reader ask for safe mode, and one that makes it ask
\* to leave it
LockBlocks == {n \in Blocks : \E r \in RESONANCE_TROUBLESOME_RANGES : n = r[1] \/ n = r[2] + 1}

\* the command starts the miner again with the settings the user last chose
LockConfigs == {cfg \in Configs : LAST_CFG = Some(cfg)}

\* the steps of command task p, of poller p and of reader k once called
CmdTaskStep(p) == CmdDone(p) \/ StopStep(p) \/ StartStep(p)
PollerStep(p) ==
    \/ StopStep(p) \/ StartStep(p) \/ SsmStep(p)
    \/ (PendingFree /\ PollTakeSome(p))
ReaderStep(k) ==
    \/ ReadActive(k)
    \/ ((PendingFree \/ ReaderRequest(k) = NONE) /\ ReadDecide(k))

NextLocks ==
    \/ \E p \in SeqCmds, cfg \in LockConfigs : CmdStart(p, cfg)
    \/ \E p \in SeqCmds : CmdStop(p)
    \/ \E p \in SeqCmds : CmdTaskStep(p)
    \/ \E p \in Pollers : PollerStep(p)
    \/ \E k \in Children, n \in LockBlocks : ReadImport(k, n)
    \/ \E k \in Children : ReaderStep(k)

\* the runtime polls every task that can go on; the mutexes are fair
SpecLocks ==
    /\ InitLocks /\ [][NextLocks]_vars
    /\ \A p \in SeqCmds : WF_vars(CmdTaskStep(p))
    /\ \A p \in Pollers : WF_vars(PollerStep(p))
    /\ \A k \in Children : WF_vars(ReaderStep(k))

\* SpecSeqLive, SpecAutoLive, SpecSeqAutoLive: the same behaviours with the
\* runtime polling every task that can go on.
SpecSeqLive == SpecSeq /\ \A p \in SeqCmds : WF_vars(CmdTaskStep(p))

SpecAutoLive ==
    /\ SpecAuto
    /\ \A p \in Pollers : WF_vars(PollerStep(p))
    /\ \A k \in Children : WF_vars(ReaderStep(k))

SpecSeqAutoLive ==
    /\ SpecSeqAuto
    /\ \A p \in SeqCmds : WF_vars(CmdTaskStep(p))
    /\ \A p \in Pollers : WF_vars(StopStep(p) \/ StartStep(p) \/ SsmStep(p))
    /\ \A k \in Children : WF_vars(ReaderStep(k))

\* SpecRepairAuto: one session after a successful start, over any state of the
\* database directory: a command task calls repair_and_restart or
\* unlock_and_restart while the readers write requests and the pollers execute
\* them. Nothing serializes the command with the pollers' set_safe_mode calls
\* (the REPAIRING flag is never read).
\* the running node has created its database directory and its LOCK file
InitRepairAuto == InitSession /\ probe = NONE /\ disk = [db |-> TRUE, lock |-> TRUE]

NextRepairAuto ==
    \/ \E p \in SeqCmds : CmdRepair(p) \/ CmdUnlock(p)
    \/ \E p \in SeqCmds : CmdTaskStep(p) \/ RestartStep(p)
    \/ \E p \in Pollers : PollerStep(p)
    \/ \E k \in Children, n \in LockBlocks : ReadImport(k, n)
    \/ \E k \in Children : ReaderStep(k)

SpecRepairAuto == InitRepairAuto /\ [][NextRepairAuto]_vars

\* SpecStatus: the status side of one session's poller: the local node's RPC
\* comes and goes and answers at will; no toggle is requested.
StatusPoller == <<"poller", 1>>

NextStatus ==
    \/ PollTakeNone(StatusPoller)
    \/ PollConnectFail(StatusPoller)
    \/ PollConnectOk(StatusPoller)
    \/ PollSubscribe(StatusPoller)
    \/ PollRead(StatusPoller)
    \/ PollHealth(StatusPoller)
    \/ PollBoot(StatusPoller)
    \/ PollPublish(StatusPoller)

SpecStatus == InitAuto /\ [][NextStatus]_vars

\* SpecStatusLive: SpecStatus with the runtime scheduling the poller task: a
\* step the loop can take is eventually taken.
SpecStatusLive == InitAuto /\ [][NextStatus]_vars /\ WF_vars(NextStatus)

\* SpecHint: the stderr reader of one session on its own: the node logs import
\* lines, lines with the RocksDB corruption signature and other lines, and may
\* exit; no poller iteration and no command runs meanwhile.
CorruptionHint == UiLog("corruption detected, use Repair")

\* faulty variant of ReadCorrupt: the reader removes the database itself
ReadCorruptWipes(k) ==
    /\ reader[k].pc = "read"
    /\ disk' = [disk EXCEPT !.db = FALSE]
    /\ out' = <<Ev("miner:log", "stderr"), CorruptionHint>>
    /\ sigs' = <<>>
    /\ UNCHANGED <<probe, MINER, LAST_CFG, SAFE_MODE_ACTIVE, SAFE_MODE_PENDING, alive, nspawn,
                   argv, task, reader, poll, nlines, ncalls, lastStatus>>

\* next_line() yields a line with "invalid argument: column families not opened"
\* (and no import prefix): the line is logged, then the "ui" hint is emitted
ReadCorrupt(k) ==
    /\ reader[k].pc = "read"
    /\ out' = <<Ev("miner:log", "stderr"), CorruptionHint>>
    /\ sigs' = <<>>
    /\ UNCHANGED <<probe, disk, MINER, LAST_CFG, SAFE_MODE_ACTIVE, SAFE_MODE_PENDING, alive, nspawn,
                   argv, task, reader, poll, nlines, ncalls, lastStatus>>

InitHint == InitSession /\ probe = NONE /\ disk \in Disks

NextHint ==
    \/ \E k \in Children : ImportStep(k)
    \/ \E k \in Children : ReadOther(k)
    \/ \E k \in Children : ReadCorrupt(k)
    \/ \E k \in Children : ReadEof(k)
    \/ \E k \in Children : ChildExit(k)

SpecHint == InitHint /\ [][NextHint]_vars
\* ---------------------------------------------------------------- properties
\* the step in which reader k leaves its if / else-if for the block it holds
Decides(k) == reader[k].pc = "rd_decide" /\ reader'[k].pc = "read"

\* C7: a reader that read "inactive" on a chain with troublesome ranges records a
\* pending enable (and announces it) when its block N is at or after the start of
\* some range, and leaves the pending toggle alone when N is below every start;
\* for resonance the boundary is 13311.
C7_EnableAtOrAfterStart ==
    [][\A k \in Children :
         (Decides(k) /\ ~reader[k].active_now /\ RangesFor(reader[k].chain) # {})
         => LET n == reader[k].block
                R == RangesFor(reader[k].chain)
            IN /\ (\E r \in R : n >= r[1])
                    => /\ SAFE_MODE_PENDING' = Some(TRUE)
                       /\ out' = <<ToggleLog(TRUE, n)>>
               /\ (\A r \in R : n < r[1])
                    => /\ SAFE_MODE_PENDING' = SAFE_MODE_PENDING
                       /\ out' = <<>>
               /\ reader[k].chain = "resonance"
                    => (out' = <<ToggleLog(TRUE, n)>> <=> n >= 13311)]_vars

\* an enable has just been recorded for block 13311 while safe mode is inactive
C7_Witness ==
    /\ out = <<ToggleLog(TRUE, 13311)>>
    /\ SAFE_MODE_PENDING = Some(TRUE)
    /\ ~SAFE_MODE_ACTIVE

\* C9: a reader that read "active" records a pending disable (and announces it)
\* exactly when its block N is strictly greater than the end of every range of the
\* chain; at or below some range's end it leaves the pending toggle alone. For
\* resonance the first disable is at 13361.
C9_DisablePastEveryRange ==
    [][\A k \in Children :
         (Decides(k) /\ reader[k].active_now)
         => LET n == reader[k].block
                R == RangesFor(reader[k].chain)
            IN /\ (\A r \in R : n > r[2])
                    => /\ SAFE_MODE_PENDING' = Some(FALSE)
                       /\ out' = <<ToggleLog(FALSE, n)>>
               /\ (\E r \in R : n <= r[2])
                    => /\ SAFE_MODE_PENDING' = SAFE_MODE_PENDING
                       /\ out' = <<>>
               /\ reader[k].chain = "resonance"
                    => (out' = <<ToggleLog(FALSE, n)>> <=> n >= 13361)]_vars

\* a disable has just been recorded for block 13361 while safe mode is active
C9_Witness ==
    /\ out = <<ToggleLog(FALSE, 13361)>>
    /\ SAFE_MODE_PENDING = Some(FALSE)
    /\ SAFE_MODE_ACTIVE

\* the step in which poller p completes set_safe_mode(enable) at its "mark state"
Marks(p, enable) ==
    /\ task[p].pc = "ssm_mark" /\ task'[p].pc # "ssm_mark"
    /\ task[p].enable = enable
    /\ task[p].res = "ok"

C2_OneLiveChildInSlot ==
    /\ Cardinality(alive) <= 1
    /\ \A k \in alive : MINER = Some(k) \/ \E p \in Procs : task[p].child = Some(k)

\* C5: at most one status poller task exists.
C5_SinglePoller == Cardinality({p \in Pollers : task[p].pc # "unborn"}) <= 1

\* C1: with calls serialized at most one child is alive, and a start that is about
\* to spawn finds no child alive: the one that was running has been terminated.
C1_AtMostOneLive ==
    /\ Cardinality(alive) <= 1
    /\ \A p \in Procs : task[p].pc = "start_spawn" => alive = {}

\* a command's start has just killed the running child and has not spawned yet
C1_Witness ==
    \E p \in Cmds, k \in Children :
        /\ task[p].op = "start" /\ task[p].pc = "start_prereq"
        /\ sigs = <<[sig |-> "SIGKILL", pid |-> k, delivered |-> TRUE]>>
        /\ alive = {}

\* the step in which p's stop() (called by a command, by set_safe_mode or as the
\* first statement of start) returns
StopReturns(p) ==
    /\ task[p].pc \in {"stop", "start", "stop_kill"}
    /\ task'[p].pc \notin {"stop", "start", "stop_int", "stop_kill"}

\* C3: with calls serialized, when stop returns the MINER slot is empty and the
\* result is success, whether or not the signals reached a live child.
C3_StopClearsSlot ==
    [][\A p \in Procs : StopReturns(p) => MINER' = NONE /\ task'[p].res = "ok"]_vars

\* a command's stop has returned after its SIGKILL found the child already gone
C3_Witness ==
    \E p \in Cmds, k \in Children :
        /\ task[p].op = "stop" /\ task[p].pc = "done" /\ task[p].res = "ok"
        /\ sigs = <<[sig |-> "SIGKILL", pid |-> k, delivered |-> FALSE]>>
        /\ MINER = NONE

\* C4: a stop that finds the MINER slot empty returns success in that step and
\* leaves the slot, LAST_CFG, the active flag, the pending toggle and the children
\* as they were, sends no signal and publishes no event.
C4_StopOnEmptyIsNoOp ==
    [][\A p \in Procs :
         (task[p].pc = "stop" /\ MINER = NONE /\ task'[p] # task[p])
         => /\ task'[p].pc = Head(task[p].stack) /\ task'[p].res = "ok"
            /\ UNCHANGED <<MINER, LAST_CFG, SAFE_MODE_ACTIVE, SAFE_MODE_PENDING, alive>>
            /\ sigs' = <<>>
            /\ out' = <<>>]_vars

\* a command's stop has returned success before any child was ever spawned
C4_Witness ==
    \E p \in Cmds :
        /\ task[p].op = "stop" /\ task[p].pc = "done" /\ task[p].res = "ok"
        /\ nspawn = 0 /\ MINER = NONE

\* the snapshot the sink last received, the initial all-empty one before any
Published == IF lastStatus = NONE THEN EmptyStatus ELSE lastStatus[1]

\* C6 (as stated): whichever branch an iteration takes, a status is published only
\* if it differs from the previously published one.
C6_PublishOnlyIfChanged ==
    [][(out' # <<>> /\ out'[1].topic = "miner:status")
         => lastStatus # out'[1].status]_vars

\* C6 (amended): an iteration that reaches the end of the loop body publishes the
\* snapshot exactly when it differs from the one last published (so identical
\* polls add no publication); an iteration whose connect fails publishes the
\* last-known snapshot unconditionally.
C6_PublishOnChangeInSession ==
    [][/\ (task[StatusPoller].pc = "poll_publish" /\ task'[StatusPoller].pc = "poll_top")
            => IF Snapshot(StatusPoller) # Published
               THEN /\ out' = <<StatusEv(Snapshot(StatusPoller))>>
                    /\ lastStatus' = Some(Snapshot(StatusPoller))
               ELSE /\ out' = <<>>
                    /\ lastStatus' = lastStatus
       /\ (task[StatusPoller].pc = "poll_connect" /\ task'[StatusPoller].pc = "poll_top")
            => out' = <<StatusEv(Snapshot(StatusPoller))>>]_vars

\* a snapshot carrying a peer count has just been published over a live session
C6_Witness ==
    /\ poll[StatusPoller].ws_opt
    /\ task[StatusPoller].pc = "poll_top"
    /\ out = <<StatusEv(Snapshot(StatusPoller))>>
    /\ Snapshot(StatusPoller).peers # NONE

\* ---------------------------------------------------------------- extra_args on their own
\* Tokens a caller may put into extra_args: the flag, its value, the "--"
\* separator, another flag.
ArgTokens == {FLAG, "1", "--", "--foo"}
ArgSeqs == UNION {[1..n -> ArgTokens] : n \in 0..MaxArgs}

InitArgs ==
    /\ Stopped
    /\ \E a \in ArgSeqs, c \in Chains \ {"heisenberg"} :
         probe = Some([orig |-> a, args |-> a, phase |-> "initial", chain |-> c,
                       argv |-> <<>>])

\* set_safe_mode(true)'s adjustment of the configuration's extra_args
ArgsEnable ==
    /\ probe # NONE /\ probe[1].phase = "initial"
    /\ probe' = Some([probe[1] EXCEPT !.args = AdjustArgs(probe[1].args, TRUE),
                                      !.phase = "enabled"])
    /\ UNCHANGED lifecycle

\* set_safe_mode(false)'s adjustment of what the enable left
ArgsDisable ==
    /\ probe # NONE /\ probe[1].phase = "enabled" /\ probe[1].argv = <<>>
    /\ probe' = Some([probe[1] EXCEPT !.args = AdjustArgs(probe[1].args, FALSE),
                                      !.phase = "disabled"])
    /\ UNCHANGED lifecycle

\* set_safe_mode(false)'s adjustment applied to the configuration as it stands
ArgsRemove ==
    /\ probe # NONE /\ probe[1].phase = "initial"
    /\ probe' = Some([probe[1] EXCEPT !.args = AdjustArgs(probe[1].args, FALSE),
                                      !.phase = "removed"])
    /\ UNCHANGED lifecycle

\* the start that follows the adjustment inside set_safe_mode builds the child's
\* argument vector from the adjusted configuration
ArgsSpawn ==
    /\ probe # NONE /\ probe[1].phase \in {"enabled", "removed"} /\ probe[1].argv = <<>>
    /\ probe' = Some([probe[1] EXCEPT
                        !.argv = BuildArgs([chain |-> probe[1].chain,
                                            extra_args |-> probe[1].args])])
    /\ UNCHANGED lifecycle

NextArgs == ArgsEnable \/ ArgsDisable \/ ArgsRemove \/ ArgsSpawn

SpecArgs == InitArgs /\ [][NextArgs]_vars

\* C11 (as stated): for every initial extra_args, enable then disable restores it.
C11_RoundTripAny ==
    (probe # NONE /\ probe[1].phase = "disabled") => probe[1].args = probe[1].orig

\* C11 (amended): for every initial extra_args that does not hold the flag,
\* enable then disable restores the same tokens in the same order.
C11_RoundTripWithoutFlag ==
    (probe # NONE /\ probe[1].phase = "disabled" /\ Count(probe[1].orig, FLAG) = 0)
    => probe[1].args = probe[1].orig

\* a flag-free, non-empty extra_args has been through enable and disable
C11_Witness ==
    /\ probe # NONE /\ probe[1].phase = "disabled"
    /\ probe[1].orig = <<"--foo", "1", "--">>

\* the step in which poller p leaves the top of its loop with a drained request
Drains(p) == task[p].pc = "poll_top" /\ task'[p].pc = "ssm_check"

\* C12: the pending toggle is one slot. A reader's request replaces whatever the
\* slot holds; a drain empties the slot in the same step in which exactly one
\* poller receives the value the slot held; nothing else changes the slot.
C12_SingleSlotMailbox ==
    [][/\ \A e \in BOOLEAN, n \in Blocks :
            out' = <<ToggleLog(e, n)>> => SAFE_MODE_PENDING' = Some(e)
       /\ \A p \in Pollers :
            Drains(p) => /\ SAFE_MODE_PENDING # NONE
                         /\ task'[p].enable = SAFE_MODE_PENDING[1]
                         /\ SAFE_MODE_PENDING' = NONE
                         /\ \A q \in Pollers \ {p} : task'[q] = task[q]
       /\ SAFE_MODE_PENDING' # SAFE_MODE_PENDING
            => \/ \E k \in Children : Decides(k)
               \/ \E p \in Pollers : Drains(p)]_vars

\* a poller has just drained a disable request while another poller exists
C12_Witness ==
    /\ SAFE_MODE_PENDING = NONE
    /\ \E p, q \in Pollers :
         /\ p # q /\ task[q].pc # "unborn"
         /\ task[p].pc = "ssm_check" /\ ~task[p].enable

\* C13: set_safe_mode(enable) called while SAFE_MODE_ACTIVE = enable returns to
\* the poller loop at once: it signals and kills nothing, spawns nothing, and
\* leaves LAST_CFG, the MINER slot and the active flag as they were.
C13_RedundantToggleIsNoOp ==
    [][\A p \in Pollers :
         (/\ task[p].pc = "ssm_check"
          /\ SAFE_MODE_ACTIVE = task[p].enable
          /\ task'[p] # task[p])
         => /\ task'[p].pc = "poll_connect"
            /\ task'[p].stack = <<>>
            /\ sigs' = <<>>
            /\ out' = <<>>
            /\ UNCHANGED <<MINER, LAST_CFG, SAFE_MODE_ACTIVE, alive, nspawn, argv>>]_vars

\* the second session's poller has come back from set_safe_mode(true) although
\* nothing was stopped or spawned since its own child was stored
C13_Witness ==
    /\ nspawn = 2
    /\ MINER = Some(2)
    /\ 2 \in alive
    /\ SAFE_MODE_ACTIVE
    /\ task[<<"poller", 2>>].pc = "poll_connect"
    /\ task[<<"poller", 1>>].pc \in {"poll_top", "poll_connect"}

\* ------------------------------------------------------------ metadata extractor
\* A line is a sequence of fragments; a fragment is a key of the extractor in
\* some spelling, a blank, a digit or a word. Values are sequences of fragments.
MaxLineToks == 3
LineToks == {"Role:", "Version ", "CPU cores:", "Highest known block at #", " ", "7"}
MetaLines == UNION {[1..n -> LineToks] : n \in 0..MaxLineToks}

\* str::to_lowercase on one fragment
to_lowercase(t) ==
    CASE t = "Role:" -> "role:"
      [] t = "Version " -> "version "
      [] t = "CPU cores:" -> "cpu cores:"
      [] t = "Highest known block at #" -> "highest known block at #"
      [] OTHER -> t

is_ascii_digit(t) == t \in {"7"}

\* str::find: the position of the first occurrence of key, 0 for None
find(line, key) ==
    IF \E i \in 1..Len(line) : line[i] = key
    THEN CHOOSE i \in 1..Len(line) : line[i] = key /\ \A j \in 1..(i - 1) : line[j] # key
    ELSE 0

\* line[ix + key.len()..]
rest_after(line, ix) == SubSeq(line, ix + 1, Len(line))

RECURSIVE trim(_)
trim(v) ==
    IF v = <<>> THEN v
    ELSE IF Head(v) = " " THEN trim(Tail(v))
    ELSE IF v[Len(v)] = " " THEN trim(SubSeq(v, 1, Len(v) - 1))
    ELSE v

\* chars().take_while(|c| c.is_ascii_digit())
RECURSIVE take_while_digit(_)
take_while_digit(v) ==
    IF v # <<>> /\ is_ascii_digit(Head(v)) THEN <<Head(v)>> \o take_while_digit(Tail(v))
    ELSE <<>>

\* str::parse of an unsigned number: None unless one or more digits and nothing else
RECURSIVE digits_value(_)
digits_value(v) == IF v = <<>> THEN 0 ELSE 10 * digits_value(SubSeq(v, 1, Len(v) - 1)) + 7

parse_unsigned(v) ==
    IF v # <<>> /\ \A i \in 1..Len(v) : is_ascii_digit(v[i]) THEN Some(digits_value(v)) ELSE NONE

MetaFields == {"binary", "chain", "rewards_address", "version", "chain_spec", "node_name",
               "role", "database", "local_identity", "jsonrpc_addr", "prometheus_addr",
               "highest_known_block", "os", "arch", "target", "cpu", "cpu_cores", "memory",
               "kernel", "distro", "vm"}
DefaultMeta == [f \in MetaFields |-> NONE]

\* the (key, field) pairs of the text fields, in the order the function tries them;
\* low: the key is looked up in the lowercased line
TextKeysBefore ==
    << [key |-> "version ", field |-> "version", low |-> TRUE],
       [key |-> "Chain specification:", field |-> "chain_spec", low |-> FALSE],
       [key |-> "Node name:", field |-> "node_name", low |-> FALSE],
       [key |-> "Role:", field |-> "role", low |-> FALSE],
       [key |-> "Database: RocksDb at", field |-> "database", low |-> FALSE],
       [key |-> "Local node identity is:", field |-> "local_identity", low |-> FALSE],
       [key |-> "Running JSON-RPC server: addr=", field |-> "jsonrpc_addr", low |-> FALSE],
       [key |-> "Prometheus exporter started at", field |-> "prometheus_addr", low |-> FALSE],
       [key |-> "Using provided rewards address:", field |-> "rewards_address", low |-> FALSE] >>
TextKeysAfter ==
    << [key |-> "Operating system:", field |-> "os", low |-> FALSE],
       [key |-> "CPU architecture:", field |-> "arch", low |-> FALSE],
       [key |-> "Target environment:", field |-> "target", low |-> FALSE],
       [key |-> "CPU:", field |-> "cpu", low |-> FALSE],
       [key |-> "Memory:", field |-> "memory", low |-> FALSE],
       [key |-> "Kernel:", field |-> "kernel", low |-> FALSE],
       [key |-> "Linux distribution:", field |-> "distro", low |-> FALSE],
       [key |-> "Virtual machine:", field |-> "vm", low |-> FALSE] >>

\* faulty variant of set: reports a change even when the value is the same
set_always(r, field, v) == [meta |-> [r.meta EXCEPT ![field] = Some(v)], changed |-> TRUE]

\* the closure `set`: store v and flag the change unless the field holds v already
set(r, field, v) ==
    IF r.meta[field] # Some(v)
    THEN [meta |-> [r.meta EXCEPT ![field] = Some(v)], changed |-> TRUE]
    ELSE r

\* faulty variant of TextRule: the value is stored even when nothing follows
\* the key
TextRuleStoresEmpty(r, line, rule) ==
    LET low == [i \in 1..Len(line) |-> to_lowercase(line[i])]
        ix == find(IF rule.low THEN low ELSE line, rule.key)
        v == trim(rest_after(line, ix))
    IN IF ix # 0 THEN set(r, rule.field, v) ELSE r

\* one `if let Some(ix) = ... find(key)` block of a text field
TextRule(r, line, rule) ==
    LET low == [i \in 1..Len(line) |-> to_lowercase(line[i])]
        ix == find(IF rule.low THEN low ELSE line, rule.key)
        v == trim(rest_after(line, ix))
    IN IF ix # 0 /\ v # <<>> THEN set(r, rule.field, v) ELSE r

RECURSIVE TextRules(_, _, _)
TextRules(r, line, rules) ==
    IF rules = <<>> THEN r ELSE TextRules(TextRule(r, line, Head(rules)), line, Tail(rules))

\* a numeric field: stored and flagged only when the parse succeeds and differs
NumRule(r, field, parsed) ==
    IF parsed # NONE /\ r.meta[field] # parsed
    THEN [meta |-> [r.meta EXCEPT ![field] = parsed], changed |-> TRUE]
    ELSE r

update_meta_from_line(meta, line) ==
    LET low == [i \in 1..Len(line) |-> to_lowercase(line[i])]
        r1 == TextRules([meta |-> meta, changed |-> FALSE], line, TextKeysBefore)
        hx == find(low, "highest known block at #")
        r2 == IF hx # 0
              THEN NumRule(r1, "highest_known_block",
                           parse_unsigned(take_while_digit(rest_after(low, hx))))
              ELSE r1
        r3 == TextRules(r2, line, TextKeysAfter)
        cx == find(line, "CPU cores:")
    IN IF cx # 0
       THEN NumRule(r3, "cpu_cores", parse_unsigned(trim(rest_after(line, cx))))
       ELSE r3

\* SpecMeta: a fresh record takes one (shorter) line, then a second line, then
\* the second line once more.
InitMeta ==
    /\ Stopped
    /\ probe = Some([phase |-> "fresh", meta |-> DefaultMeta, prev |-> DefaultMeta,
                     line |-> <<>>, changed |-> FALSE])

MetaCall(line, phase) ==
    LET r == update_meta_from_line(probe[1].meta, line)
    IN probe' = Some([phase |-> phase, meta |-> r.meta, prev |-> probe[1].meta,
                      line |-> line, changed |-> r.changed])

MetaSeed ==
    /\ probe # NONE /\ probe[1].phase = "fresh"
    /\ \E line \in {l \in MetaLines : Len(l) < MaxLineToks} : MetaCall(line, "seeded")
    /\ UNCHANGED lifecycle

MetaApply ==
    /\ probe # NONE /\ probe[1].phase = "seeded"
    /\ \E line \in MetaLines : MetaCall(line, "applied")
    /\ UNCHANGED lifecycle

MetaRepeat ==
    /\ probe # NONE /\ probe[1].phase = "applied"
    /\ MetaCall(probe[1].line, "repeated")
    /\ UNCHANGED lifecycle

NextMeta == MetaSeed \/ MetaApply \/ MetaRepeat
SpecMeta == InitMeta /\ [][NextMeta]_vars

\* C14: a call of the extractor reports changed exactly when the record after
\* the call differs from the record before it, and the same line applied again
\* at once reports no change and leaves the record as it is.
C14_ChangedIffDiffersAndRepeatIsQuiet ==
    probe # NONE =>
      /\ probe[1].phase # "fresh" => (probe[1].changed <=> probe[1].meta # probe[1].prev)
      /\ probe[1].phase = "repeated" => ~probe[1].changed /\ probe[1].meta = probe[1].prev

\* "Role: 7" was applied to a record whose role was something else, then repeated
C14_Witness ==
    /\ probe # NONE
    /\ probe[1].phase = "repeated"
    /\ probe[1].line = <<"Role:", " ", "7">>
    /\ probe[1].meta["role"] = Some(<<"7">>)
    /\ probe[1].meta["version"] # NONE

\* ------------------------------------------------------ published meta records
\* the record start emits once the child is spawned: binary, chain and rewards
\* address from its own context, every other field default
InitialSnapshot(cfg) ==
    [DefaultMeta EXCEPT !["binary"] = Some(<<"quantus-node">>),
                        !["chain"] = Some(<<cfg.chain>>),
                        !["rewards_address"] = Some(<<"qz-address">>)]

\* SpecPub: the "miner:meta" publications of one session, in order: the record
\* start emits, then the record of the stderr task, which begins as
\* MinerMeta::default() and is emitted after every line that changed it.
InitPub ==
    /\ InitSession
    /\ disk = NoDisk
    /\ probe = Some([meta |-> DefaultMeta, pubs |-> <<InitialSnapshot(LAST_CFG[1])>>,
                     lines |-> 0])

ReadMeta ==
    /\ probe # NONE /\ probe[1].lines < MaxLines
    /\ \E line \in {l \in MetaLines : Len(l) < MaxLineToks} :
         LET r == update_meta_from_line(probe[1].meta, line)
         IN probe' = Some([meta |-> r.meta,
                           pubs |-> IF r.changed THEN Append(probe[1].pubs, r.meta)
                                    ELSE probe[1].pubs,
                           lines |-> probe[1].lines + 1])
    /\ UNCHANGED lifecycle

NextPub == ReadMeta
SpecPub == InitPub /\ [][NextPub]_vars

\* ------------------------------------------------------------------- log parser
\* A stdout/stderr line as a sequence of fragments: the phrases the parser looks
\* for (in some spelling), numerals, "=" and blanks.
EvToks == {"Connected to", "Syncing", "Hashrate:", "H/s", "=", "42.5", "..", " ",
           "Share accepted", "Mined block", "ERROR"}
EvLines == UNION {[1..n -> EvToks] : n \in 0..MaxLineToks}

\* str::to_lowercase on one fragment of EvToks
ev_lowercase(t) ==
    CASE t = "Connected to" -> "connected to"
      [] t = "Syncing" -> "syncing"
      [] t = "Hashrate:" -> "hashrate:"
      [] t = "H/s" -> "h/s"
      [] t = "Share accepted" -> "share accepted"
      [] t = "Mined block" -> "mined block"
      [] t = "ERROR" -> "error"
      [] OTHER -> t

\* str::contains
contains(l, s) == \E i \in 1..Len(l) : l[i] = s

\* the fragments the class [\d\.] accepts
IsNumeral(t) == t \in {"42.5", ".."}

\* \s* from position i: the first position that is not a blank
RECURSIVE skip_ws(_, _)
skip_ws(l, i) == IF i <= Len(l) /\ l[i] = " " THEN skip_ws(l, i + 1) ELSE i

\* [\d\.]+ from position i, greedy: the last position of the run (i - 1: no run)
RECURSIVE numeral_end(_, _)
numeral_end(l, i) == IF i <= Len(l) /\ IsNumeral(l[i]) THEN numeral_end(l, i + 1) ELSE i - 1

\* RE1 = hashrate[:=]\s*([\d\.]+)\s*h/?s matched at position i: the capture, else <<>>
RE1_at(l, i) ==
    LET j == skip_ws(l, i + 1)
        e == numeral_end(l, j)
        k == skip_ws(l, e + 1)
    IN IF l[i] = "hashrate:" /\ e >= j /\ k <= Len(l) /\ l[k] = "h/s"
       THEN SubSeq(l, j, e) ELSE <<>>

\* RE2 = h/?s\s*=?\s*([\d\.]+) matched at position i: the capture, else <<>>
RE2_at(l, i) ==
    LET j == skip_ws(l, i + 1)
        j2 == skip_ws(l, IF j <= Len(l) /\ l[j] = "=" THEN j + 1 ELSE j)
        e == numeral_end(l, j2)
    IN IF l[i] = "h/s" /\ e >= j2 THEN SubSeq(l, j2, e) ELSE <<>>

\* Regex::captures: group 1 of the leftmost match, as an Option
captures(l, re) ==
    LET at(i) == IF re = 1 THEN RE1_at(l, i) ELSE RE2_at(l, i)
        hits == {i \in 1..Len(l) : at(i) # <<>>}
    IN IF hits = {} THEN NONE
       ELSE Some(at(CHOOSE i \in hits : \A j \in hits : i <= j))

\* str::parse::<f64> of a capture, in tenths; Err (None) unless a single numeral
parse_f64(c) == IF c = <<"42.5">> THEN Some(425) ELSE NONE

\* RE1.captures(l).or_else(|| RE2.captures(l)), then the parse of the capture
parse_hashrate(l) ==
    LET c1 == captures(l, 1)
        c == IF c1 # NONE THEN c1 ELSE captures(l, 2)
    IN IF c # NONE /\ parse_f64(c[1]) # NONE
       THEN Some([type |-> "Hashrate", hps |-> parse_f64(c[1])[1], message |-> <<>>])
       ELSE NONE

EvOf(type) == [type |-> type, hps |-> 0, message |-> <<>>]

IsConnected(l) == contains(l, "connected to") \/ contains(l, "syncing")
IsShare(l) == contains(l, "share accepted") \/ contains(l, "accepted share")
IsBlock(l) == \/ contains(l, "found block") \/ contains(l, "contributed block")
              \/ contains(l, "mined block")
IsError(l) == contains(l, "error") \/ contains(l, "failed")

\* faulty variant of parse_event: the share rule is tried before the hashrate rule
parse_event_share_first(line) ==
    LET l == [i \in 1..Len(line) |-> ev_lowercase(line[i])]
    IN IF IsConnected(l) THEN Some(EvOf("Connected"))
       ELSE IF IsShare(l) THEN Some(EvOf("ShareAccepted"))
       ELSE IF parse_hashrate(l) # NONE THEN parse_hashrate(l)
       ELSE IF IsBlock(l) THEN Some(EvOf("FoundBlock"))
       ELSE IF IsError(l) THEN Some([EvOf("Error") EXCEPT !.message = trim(line)])
       ELSE NONE

\* parse_event; the height and hash captured for FoundBlock are left out
parse_event(line) ==
    LET l == [i \in 1..Len(line) |-> ev_lowercase(line[i])]
    IN IF IsConnected(l) THEN Some(EvOf("Connected"))
       ELSE IF parse_hashrate(l) # NONE THEN parse_hashrate(l)
       ELSE IF IsShare(l) THEN Some(EvOf("ShareAccepted"))
       ELSE IF IsBlock(l) THEN Some(EvOf("FoundBlock"))
       ELSE IF IsError(l) THEN Some([EvOf("Error") EXCEPT !.message = trim(line)])
       ELSE NONE

\* SpecParse: a reader hands one line to the parser.
InitParse ==
    /\ Stopped
    /\ \E line \in EvLines : probe = Some([phase |-> "read", line |-> line, ev |-> NONE])

ParseLine ==
    /\ probe # NONE /\ probe[1].phase = "read"
    /\ probe' = Some([probe[1] EXCEPT !.phase = "parsed", !.ev = parse_event(probe[1].line)])
    /\ UNCHANGED lifecycle

NextParse == ParseLine
SpecParse == InitParse /\ [][NextParse]_vars

\* the rules a line matches, in the order 1 connectivity/sync, 2 hashrate,
\* 3 share accepted, 4 block found, 5 error/failed, whatever the letters' case
RulesMatched(line) ==
    LET l == [i \in 1..Len(line) |-> ev_lowercase(line[i])]
    IN {r \in 1..5 : \/ r = 1 /\ IsConnected(l)
                     \/ r = 2 /\ parse_hashrate(l) # NONE
                     \/ r = 3 /\ IsShare(l)
                     \/ r = 4 /\ IsBlock(l)
                     \/ r = 5 /\ IsError(l)}
RuleType == <<"Connected", "Hashrate", "ShareAccepted", "FoundBlock", "Error">>

\* C15: the event of a line is the event of the lowest-numbered rule the line
\* matches, and a line that matches no rule gives no event.
C15_FirstMatchingRule ==
    (probe # NONE /\ probe[1].phase = "parsed") =>
      LET m == RulesMatched(probe[1].line)
      IN IF m = {} THEN probe[1].ev = NONE
         ELSE /\ probe[1].ev # NONE
              /\ \E r \in m : /\ \A q \in m : r <= q
                              /\ probe[1].ev[1].type = RuleType[r]

\* the line "H/s" "42.5" "Share accepted" matches the hashrate rule and the share
\* rule, and was parsed to Hashrate
C15_Witness ==
    /\ probe # NONE
    /\ probe[1].phase = "parsed"
    /\ probe[1].line = <<"H/s", "42.5", "Share accepted">>
    /\ probe[1].ev = Some([type |-> "Hashrate", hps |-> 425, message |-> <<>>])

\* the step in which p's start gives up on its prerequisites
PrereqFails(p) ==
    /\ task[p].pc = "start_prereq"
    /\ task'[p].pc \notin {"start_prereq", "start_spawn"}

\* C16: a start whose prerequisites cannot be resolved returns an error having
\* spawned no child and launched no reader and no poller, and no child is
\* running when it returns; a heisenberg configuration always ends this way.
C16_PrereqFailureSpawnsNothing ==
    [][\A p \in SeqCmds :
         /\ PrereqFails(p) =>
              /\ task'[p].res = "err"
              /\ nspawn' = nspawn
              /\ reader' = reader
              /\ \A q \in Pollers : task'[q] = task[q]
              /\ alive' = {}
              /\ MINER' = NONE
         /\ (/\ task[p].pc = "start_prereq"
             /\ task[p].cfg[1].chain = "heisenberg"
             /\ task'[p] # task[p]) => PrereqFails(p)]_vars

\* a start failed on its prerequisites after an earlier start had spawned a child
C16_Witness ==
    /\ task[<<"cmd", 1>>].pc = "done"
    /\ task[<<"cmd", 1>>].op = "start"
    /\ task[<<"cmd", 1>>].res = "err"
    /\ task[<<"cmd", 1>>].cfg # LAST_CFG
    /\ nspawn = 1
    /\ alive = {}

\* C17: repair_and_restart and unlock_and_restart called while no configuration
\* is remembered return an error in one step that signals and kills nothing,
\* removes nothing from the disk, spawns nothing and publishes nothing.
C17_NoConfigNoEffect ==
    [][\A p \in SeqCmds :
         (/\ task[p].pc \in {"repair", "unlock"}
          /\ LAST_CFG = NONE
          /\ task'[p] # task[p])
         => /\ task'[p].pc = "done"
            /\ task'[p].res = "err"
            /\ sigs' = <<>>
            /\ out' = <<>>
            /\ UNCHANGED <<disk, MINER, LAST_CFG, alive, nspawn, argv, reader, poll>>]_vars

\* a repair has returned an error for want of a configuration; the database and
\* its lock are still on the disk
C17_Witness ==
    /\ task[<<"cmd", 1>>].pc = "done"
    /\ task[<<"cmd", 1>>].op = "repair"
    /\ task[<<"cmd", 1>>].res = "err"
    /\ LAST_CFG = NONE
    /\ disk = [db |-> TRUE, lock |-> TRUE]

\* the step in which command p's start spawns the child of a new session
Spawns(p) == task[p].op = "start" /\ task[p].pc = "start_spawn" /\ task'[p].pc = "start_store"

\* C18: a session opened by a start command begins with safe mode inactive, no
\* pending toggle and an empty status snapshot, whatever the session before it
\* left behind.
C18_StartResetsSession ==
    [][\A p \in SeqCmds :
         Spawns(p) => /\ ~SAFE_MODE_ACTIVE'
                      /\ SAFE_MODE_PENDING' = NONE
                      /\ poll'[<<"poller", nspawn'>>] = NoPoll]_vars

\* C19: a step of the poller in which a send to the local session fails, or a
\* read from it fails or finds the stream closed, drops the session and takes
\* the poller back to the top of its loop, where it will connect anew.
C19_FailedSessionDiscarded ==
    [][(/\ task[StatusPoller].pc \in {"poll_sub", "poll_read", "poll_health"}
        /\ task'[StatusPoller].pc # task[StatusPoller].pc
        /\ poll'[StatusPoller].io \in {"send_err", "read_err", "closed"})
       => /\ ~poll'[StatusPoller].ws_opt
          /\ task'[StatusPoller].pc = "poll_top"]_vars

\* C20: an iteration whose bootnode sampling fails (connect, send, timeout,
\* malformed reply) leaves the local session, its subscription and the four
\* status values as they were, and goes on to the end of the loop body.
C20_BootnodeFailureLeavesLocalState ==
    [][(/\ task[StatusPoller].pc = "poll_boot"
        /\ task'[StatusPoller].pc # "poll_boot"
        /\ poll'[StatusPoller].boot \in BootFailures)
       => /\ poll'[StatusPoller].ws_opt = poll[StatusPoller].ws_opt
          /\ poll'[StatusPoller].sub_id = poll[StatusPoller].sub_id
          /\ poll'[StatusPoller].st = poll[StatusPoller].st
          /\ poll'[StatusPoller].got_update = poll[StatusPoller].got_update
          /\ task'[StatusPoller].pc = "poll_publish"]_vars

\* a bootnode sampling has just failed; the poller still holds its subscribed
\* local session and the block number it has read from it
C20_Witness ==
    /\ task[StatusPoller].pc = "poll_publish"
    /\ poll[StatusPoller].boot \in BootFailures
    /\ poll[StatusPoller].ws_opt
    /\ poll[StatusPoller].sub_id
    /\ poll[StatusPoller].st.current_block # NONE

\* a token that looks like a flag: it starts with "--"
LooksLikeFlag(t) == t \in {FLAG, "--", "--foo"}

\* what is left of args from position i on when every flag token goes together
\* with the token after it, unless that token looks like a flag
RECURSIVE WithoutFlagAndValue(_, _)
WithoutFlagAndValue(args, i) ==
    IF i > Len(args) THEN <<>>
    ELSE IF args[i] = FLAG
         THEN IF i + 1 <= Len(args) /\ ~LooksLikeFlag(args[i + 1])
              THEN WithoutFlagAndValue(args, i + 2)
              ELSE WithoutFlagAndValue(args, i + 1)
         ELSE <<args[i]>> \o WithoutFlagAndValue(args, i + 1)

\* C21: a disable leaves extra_args without any flag token and without the
\* token after each, except that a following token that starts with "--" stays;
\* the other tokens stay in their order.
C21_DisableKeepsFollowingFlag ==
    (probe # NONE /\ probe[1].phase = "removed")
    => probe[1].args = WithoutFlagAndValue(probe[1].orig, 1)

\* C22: a poller executes a drained toggle as stop, then start with the
\* adjusted configuration; SAFE_MODE_ACTIVE changes only when such a start has
\* returned Ok, and to the requested value; after a failed start the flag and
\* the pending slot are left alone. No step of a stderr reader signals, kills
\* or spawns a child or touches the slot.
C22_ToggleIsStopStartThenMark ==
    [][/\ \A p \in Pollers :
            /\ (task[p].pc = "ssm_cfg" /\ task'[p].pc # "ssm_cfg" /\ LAST_CFG # NONE)
                 => /\ task'[p].pc = "stop"
                    /\ has_max_blocks_arg(task'[p].cfg[1].extra_args) = task[p].enable
            /\ (task[p].pc # "start" /\ task'[p].pc = "start")
                 => task[p].pc \in {"stop", "stop_kill"}
            /\ (task[p].pc = "start_spawn" /\ task'[p].pc = "start_store")
                 => has_max_blocks_arg(argv') = task[p].enable
            /\ (task[p].pc = "ssm_mark" /\ task[p].res = "err" /\ task'[p] # task[p])
                 => UNCHANGED <<SAFE_MODE_ACTIVE, SAFE_MODE_PENDING>>
       /\ SAFE_MODE_ACTIVE' # SAFE_MODE_ACTIVE
            => \E p \in Pollers : /\ task[p].pc = "ssm_mark"
                                  /\ task[p].res = "ok"
                                  /\ task'[p] # task[p]
                                  /\ SAFE_MODE_ACTIVE' = task[p].enable
       /\ (\E k \in Children : reader'[k] # reader[k] /\ reader[k].pc # "unborn")
            => /\ UNCHANGED <<MINER, alive, nspawn, argv>>
               /\ sigs' = <<>>]_vars

\* the first session's poller has executed an enable whose start failed: the
\* child is stopped, none was spawned, and safe mode is not active
C22_Witness ==
    /\ task[<<"poller", 1>>].pc = "poll_connect"
    /\ nspawn = 1
    /\ MINER = NONE
    /\ alive = {}
    /\ ~SAFE_MODE_ACTIVE
    /\ SAFE_MODE_PENDING = NONE

\* C23: with the calls made one at a time, the child a start spawns is built
\* from the configuration that LAST_CFG holds, and when the start returns Ok
\* LAST_CFG still holds the configuration of the child now in the slot.
C23_LastCfgIsRunningCfg ==
    [][\A p \in SeqCmds :
         /\ (task[p].pc = "start_spawn" /\ task'[p].pc = "start_store")
              => /\ LAST_CFG' = task[p].cfg
                 /\ argv' = BuildArgs(task[p].cfg[1])
         /\ (task[p].pc = "start_store" /\ task'[p].pc = "done")
              => /\ task'[p].res = "ok"
                 /\ MINER' = Some(nspawn)
                 /\ LAST_CFG' # NONE
                 /\ argv' = BuildArgs(LAST_CFG'[1])]_vars

\* a second start, given the flag by its caller, has returned Ok
C23_Witness ==
    /\ task[<<"cmd", 1>>].pc = "done"
    /\ task[<<"cmd", 1>>].op = "start"
    /\ task[<<"cmd", 1>>].res = "ok"
    /\ nspawn = 2
    /\ MINER = Some(2)
    /\ LAST_CFG # NONE
    /\ LAST_CFG[1].extra_args = <<FLAG, "1">>

\* the fixed part of the node's command line for a chain
FixedPrefix(chain) ==
    <<"--chain", IF chain = "resonance" THEN "live_resonance" ELSE chain, "--validator",
      "--node-key-file", "<node_key_path>", "--rewards-address", "<acct.address>">>

\* somewhere in v the flag is immediately followed by "1"
HasFlagOne(v) == \E i \in 1..(Len(v) - 1) : v[i] = FLAG /\ v[i + 1] = "1"

\* the child of a toggle restart has been given its argument vector
Launched == probe # NONE /\ probe[1].argv # <<>>

C25_StopOrder ==
    [][/\ \A p \in SeqCmds :
            /\ (task[p].pc \in {"stop", "start"} /\ MINER # NONE /\ task'[p] # task[p])
                 => /\ MINER' = NONE
                    /\ task'[p].pc = "stop_int"
                    /\ task'[p].child = MINER
                    /\ sigs' = <<>>
                    /\ alive' = alive
            /\ (task[p].pc = "stop_int" /\ task'[p] # task[p])
                 => /\ task'[p].pc = "stop_kill"
                    /\ Len(sigs') = 1
                    /\ sigs'[1].sig = "SIGINT" /\ sigs'[1].pid = task[p].child[1]
                    /\ alive' = alive
            /\ (task[p].pc = "stop_kill" /\ task'[p] # task[p])
                 => /\ Len(sigs') = 1
                    /\ sigs'[1].sig = "SIGKILL" /\ sigs'[1].pid = task[p].child[1]
                    /\ task[p].child[1] \notin alive'
       /\ sigs' # <<>> => \E p \in SeqCmds : task[p].pc \in {"stop_int", "stop_kill"}
                                             /\ task'[p] # task[p]]_vars

\* the kill has just been issued for a child that had exited on its own
C25_Witness ==
    /\ Len(sigs) = 1
    /\ sigs[1].sig = "SIGKILL"
    /\ ~sigs[1].delivered
    /\ task[<<"cmd", 1>>].op = "stop"

\* the poller stands at the connect step without a session
Unconnected == task[StatusPoller].pc = "poll_connect" /\ ~poll[StatusPoller].ws_opt

\* C26: a failed connect publishes the snapshot held in the locals, alters no
\* local and takes the poller back to the top of its loop, from where it comes
\* to the connect step again, every time; a successful connect yields a session
\* without subscription id, on which the subscribe request is sent.
C26_RetryForeverThenSubscribe ==
    /\ [][/\ (Unconnected /\ task'[StatusPoller].pc = "poll_top")
               => /\ out' = <<StatusEv(poll[StatusPoller].st)>>
                  /\ lastStatus' = Some(poll[StatusPoller].st)
                  /\ poll' = poll
          /\ (Unconnected /\ task'[StatusPoller].pc # "poll_connect")
               => \/ task'[StatusPoller].pc = "poll_top"
                  \/ /\ task'[StatusPoller].pc = "poll_sub"
                     /\ poll'[StatusPoller].ws_opt
                     /\ ~poll'[StatusPoller].sub_id
          /\ (/\ task[StatusPoller].pc = "poll_sub"
              /\ ~poll[StatusPoller].sub_id
              /\ task'[StatusPoller].pc # "poll_sub")
               => poll'[StatusPoller].io # "none"]_vars
    /\ [](task[StatusPoller].pc = "poll_top" /\ ~poll[StatusPoller].ws_opt => <>Unconnected)

\* a connect has just failed for a poller that had read a block number from a
\* session it has lost since; it has published what it holds
C26_Witness ==
    /\ task[StatusPoller].pc = "poll_top"
    /\ ~poll[StatusPoller].ws_opt
    /\ poll[StatusPoller].st.current_block # NONE
    /\ out = <<StatusEv(poll[StatusPoller].st)>>

\* C27: in every published status that carries both values, highest_block is
\* not lower than current_block (highest_block being the higher of the local
\* height and the bootnode's).
C27_HighestNotBelowCurrent ==
    lastStatus # NONE =>
      LET s == lastStatus[1]
      IN (s.highest_block # NONE /\ s.current_block # NONE)
           => s.highest_block[1] >= s.current_block[1]

\* p's call returns an error in this step
ReturnsErr(p) == task'[p].pc = "done" /\ task'[p].res = "err"

\* C28: repair_and_restart with a remembered configuration calls stop, then
\* removes the database directory, then calls start with the configuration it
\* read at its beginning; a removal that fails ends the call with an error,
\* nothing being spawned and no child left running.
C28_RepairStopWipeStart ==
    [][\A p \in SeqCmds :
         /\ (task[p].pc = "repair" /\ LAST_CFG # NONE /\ task'[p] # task[p])
              => /\ disk' = disk
                 /\ \/ ReturnsErr(p) /\ UNCHANGED <<MINER, alive>>
                    \/ task'[p].pc = "stop" /\ task'[p].cfg = LAST_CFG
         /\ (task[p].pc # "repair_wipe" /\ task'[p].pc = "repair_wipe")
              => task[p].pc \in {"stop", "stop_kill"} /\ disk' = disk
         /\ (task[p].pc = "repair_wipe" /\ task'[p] # task[p])
              => /\ MINER' = NONE /\ alive' = {} /\ nspawn' = nspawn
                 /\ \/ /\ task'[p].pc = "start"
                       /\ task'[p].cfg = task[p].cfg
                       /\ ~disk'.db /\ disk'.lock = disk.lock
                    \/ /\ ReturnsErr(p)
                       /\ disk.db /\ disk' = disk
         /\ (task[p].op = "repair" /\ task[p].pc # "start" /\ task'[p].pc = "start")
              => task[p].pc = "repair_wipe"
         /\ (task[p].op = "repair" /\ task[p].pc = "start_spawn"
             /\ task'[p].pc = "start_store")
              => argv' = BuildArgs(task[p].cfg[1]) /\ ~disk.db]_vars

\* a repair has ended in an error on the removal of the database: the child it
\* stopped is gone, the database is still there, nothing was spawned
C28_Witness ==
    /\ task[<<"cmd", 1>>].pc = "done"
    /\ task[<<"cmd", 1>>].op = "repair"
    /\ task[<<"cmd", 1>>].res = "err"
    /\ nspawn = 1
    /\ MINER = NONE
    /\ alive = {}
    /\ disk.db

\* C29: unlock_and_restart with a remembered configuration calls stop, then
\* removes the LOCK file if there is one, then calls start with the
\* configuration it read at its beginning; without a LOCK file it goes on to
\* the start all the same.
C29_UnlockStopRemoveStart ==
    [][\A p \in SeqCmds :
         /\ (task[p].pc = "unlock" /\ LAST_CFG # NONE /\ task'[p] # task[p])
              => /\ disk' = disk
                 /\ \/ ReturnsErr(p) /\ UNCHANGED <<MINER, alive>>
                    \/ task'[p].pc = "stop" /\ task'[p].cfg = LAST_CFG
         /\ (task[p].pc # "unlock_remove" /\ task'[p].pc = "unlock_remove")
              => task[p].pc \in {"stop", "stop_kill"} /\ disk' = disk
         /\ (task[p].pc = "unlock_remove" /\ ~disk.lock /\ task'[p] # task[p])
              => /\ task'[p].pc = "start"
                 /\ task'[p].cfg = task[p].cfg
                 /\ disk' = disk
         /\ (task[p].pc = "unlock_remove" /\ disk.lock /\ task'[p] # task[p])
              => \/ /\ task'[p].pc = "start"
                    /\ task'[p].cfg = task[p].cfg
                    /\ ~disk'.lock /\ disk'.db = disk.db
                 \/ ReturnsErr(p) /\ disk' = disk
         /\ (task[p].op = "unlock" /\ task[p].pc # "start" /\ task'[p].pc = "start")
              => task[p].pc = "unlock_remove"
         /\ (task[p].op = "unlock" /\ task[p].pc = "start_spawn"
             /\ task'[p].pc = "start_store")
              => argv' = BuildArgs(task[p].cfg[1]) /\ ~disk.lock]_vars

\* an unlock that found no LOCK file has restarted the node
C29_Witness ==
    /\ task[<<"cmd", 1>>].pc = "done"
    /\ task[<<"cmd", 1>>].op = "unlock"
    /\ task[<<"cmd", 1>>].res = "ok"
    /\ nspawn = 2
    /\ MINER = Some(2)
    /\ out = <<>>
    /\ disk = [db |-> TRUE, lock |-> FALSE]

\* C30: a stderr line with the database-corruption signature makes the reader
\* publish the line and one advisory "ui" log line and nothing else: the slot,
\* the children, the spawn count, the launched arguments, the database and the
\* LOCK file, the remembered configuration and both safe-mode cells stay as
\* they were and no signal is sent.
C30_CorruptionOnlyAdvises ==
    [][(\E i \in DOMAIN out' : out'[i] = CorruptionHint)
         => (/\ out' = <<Ev("miner:log", "stderr"), CorruptionHint>>
             /\ sigs' = <<>>
             /\ UNCHANGED <<MINER, alive, nspawn, argv, disk, LAST_CFG, task, poll,
                            SAFE_MODE_ACTIVE, SAFE_MODE_PENDING>>)]_vars

\* the hint has just been published while a toggle requested by an earlier
\* import line is still pending, the child runs and the database is on disk
C30_Witness ==
    /\ out = <<Ev("miner:log", "stderr"), CorruptionHint>>
    /\ SAFE_MODE_PENDING = Some(TRUE)
    /\ MINER = Some(1)
    /\ alive = {1}
    /\ nspawn = 1
    /\ disk.db

\* the fields that hold a number; the others hold a text
NumFields == {"highest_known_block", "cpu_cores"}

\* a field of the record holds a value: Some(n), or Some(v) with v not empty
Populated(meta, f) == meta[f] # NONE /\ (f \notin NumFields => meta[f][1] # <<>>)

\* C31: a call of the extractor never empties a field: a field that held a
\* value before the call holds a value after it, and no call stores an empty
\* text.
C31_PopulatedStaysPopulated ==
    (probe # NONE /\ probe[1].phase # "fresh") =>
      \A f \in MetaFields :
        /\ probe[1].meta[f] # NONE => Populated(probe[1].meta, f)
        /\ Populated(probe[1].prev, f) => Populated(probe[1].meta, f)

\* a later line carries the key of a populated field followed by blanks only:
\* the field has kept its value
C31_Witness ==
    /\ probe # NONE
    /\ probe[1].phase = "applied"
    /\ probe[1].line = <<"Role:", " ", " ">>
    /\ probe[1].prev["role"] = Some(<<"7">>)
    /\ probe[1].meta["role"] = Some(<<"7">>)

\* C32: a text reply that is not what the poller looks for (no JSON, no result,
\* a member of another type, a number that does not parse) is passed over: the
\* poller goes on to the next step of the same iteration, keeps its session,
\* emits nothing, and leaves unchanged the status fields the reply did not
\* deliver (and the subscription id, if the reply was to carry one).
C32_MalformedReplyPassedOver ==
    [][LET p == StatusPoller IN
       (/\ task[p].pc \in {"poll_sub", "poll_read", "poll_health"}
        /\ task'[p] # task[p]
        /\ poll'[p].io \in Malformed)
         => /\ task'[p].pc = CASE task[p].pc = "poll_sub" -> "poll_read"
                               [] task[p].pc = "poll_read" -> "poll_health"
                               [] OTHER -> "poll_boot"
            /\ poll'[p].ws_opt = poll[p].ws_opt
            /\ poll'[p].sub_id = poll[p].sub_id
            /\ out' = <<>>
            /\ lastStatus' = lastStatus
            /\ poll'[p].st.current_block = poll[p].st.current_block
            /\ poll'[p].st.highest_block = poll[p].st.highest_block
            /\ task[p].pc # "poll_health" => poll'[p].st = poll[p].st
            /\ poll'[p].io \in {"malformed", "bad_peers"}
                 => poll'[p].st.peers = poll[p].st.peers
            /\ poll'[p].io \in {"malformed", "bad_syncing"}
                 => poll'[p].st.is_syncing = poll[p].st.is_syncing]_vars

\* a read in the loop has just yielded a text without a usable head number in
\* a subscribed session whose locals already hold a height
C32_Witness ==
    /\ task[StatusPoller].pc = "poll_health"
    /\ poll[StatusPoller].io = "malformed"
    /\ poll[StatusPoller].ws_opt
    /\ poll[StatusPoller].sub_id
    /\ poll[StatusPoller].st.current_block = Some(2)

\* the log lines a reader task publishes
ReaderLogs == {Ev("miner:log", "stderr"), Ev("miner:log", "stdout")}

\* C33: once a child is gone, both of its reader tasks come to their end; a
\* reader task that has ended stays ended, and when no reader task is reading
\* no stdout or stderr log line is published.
C33_ReadersEndWithStream ==
    /\ [][/\ \A k \in Children :
               /\ reader[k].pc = "eof" => reader'[k].pc = "eof"
               /\ reader[k].stdout = "eof" => reader'[k].stdout = "eof"
          /\ \A src \in {"stderr", "stdout"} :
               (\A k \in Children :
                   (IF src = "stderr" THEN reader[k].pc ELSE reader[k].stdout)
                     \in {"unborn", "eof"})
                 => \A i \in DOMAIN out' : out'[i] # Ev("miner:log", src)]_vars
    /\ \A k \in Children :
         [](reader[k].pc # "unborn" /\ k \notin alive
              => <>(reader[k].pc = "eof" /\ reader[k].stdout = "eof"))

\* the first child was stopped, both of its readers have ended, and the second
\* child's readers are at work
C33_Witness ==
    /\ reader[1].pc = "eof"
    /\ reader[1].stdout = "eof"
    /\ reader[2].pc = "read"
    /\ reader[2].stdout = "read"
    /\ alive = {2}
    /\ MINER = Some(2)
    /\ out = <<Ev("miner:log", "stdout")>>

\* a stop command has come back to the UI
StopDone == \E p \in Cmds : task[p].op = "stop" /\ task[p].pc = "done"

\* C34: from the moment a stop command has returned, for as long as no further
\* command is issued (the count of issued commands stays), no child is spawned.
C34_StoppedStaysStopped ==
    \A c \in 0..MaxSpawns, n \in 0..MaxCalls :
      [](StopDone /\ nspawn = c /\ ncalls = n => [](ncalls = n => nspawn = c))

\* C35: when a child is in the slot, no poller is inside set_safe_mode and no
\* command is running, the active flag tells whether the remembered configuration carries the flag:
\* SAFE_MODE_ACTIVE holds exactly if LAST_CFG's extra_args contain
\* "--max-blocks-per-request".
C35_ActiveIffFlagInLastCfg ==
    (/\ LAST_CFG # NONE
     /\ MINER # NONE
     /\ \A p \in Pollers : ~ToggleInProgress(p)
     /\ \A p \in Cmds : task[p].pc \in {"idle", "done"})
      => (SAFE_MODE_ACTIVE <=> has_max_blocks_arg(LAST_CFG[1].extra_args))

\* a poller has come back from the stop and start of a disable toggle
DisableExecuted ==
    \E p \in Pollers : task[p].pc = "ssm_mark" /\ ~task[p].enable /\ task[p].res = "ok"

\* the last step recorded an enable request for a height past every range
EnableRecordedPast ==
    \E i \in DOMAIN out, n \in Blocks :
      past_all(RESONANCE_TROUBLESOME_RANGES, n) /\ out[i] = ToggleLog(TRUE, n)

\* C36: once a disable toggle has been executed, no import line whose height is
\* past the end of every troublesome range records an enable request.
C36_NoEnableOncePast == [](DisableExecuted => [](~EnableRecordedPast))

\* a start command has just been issued / has come back with an error
StartCalled == \E p \in Cmds : task[p].op = "start" /\ task[p].pc = "start"
StartFailed ==
    \E p \in Cmds : task[p].op = "start" /\ task[p].pc = "done" /\ task[p].res = "err"

\* C38: a start command that comes back with an error has left LAST_CFG as it
\* was when the command was issued (n numbers the command, c is LAST_CFG at
\* its issue).
C38_FailedStartKeepsLastCfg ==
    \A n \in 1..MaxCalls, c \in {NONE} \cup {Some(cfg) : cfg \in Configs} :
      [](StartCalled /\ ncalls = n /\ LAST_CFG = c
           => [](StartFailed /\ ncalls = n => LAST_CFG = c))

\* task p waits for MINER / for SAFE_MODE_PENDING, held by another task
WaitsMiner(p) == task[p].pc \in {"stop", "start", "start_store"} /\ ~MinerFree
WaitsPending(p) == p \in Pollers /\ task[p].pc = "poll_top" /\ ~PendingFree
WaitsFor(p, q) ==
    \/ WaitsMiner(p) /\ HoldsMiner(q)
    \/ WaitsPending(p) /\ HoldsPending(q)

\* inside a call of stop, start or set_safe_mode
InCall(p) == task[p].pc \notin {"unborn", "idle", "done", "poll_top", "poll_connect"}

C39_RemovedOnlyWithoutChild ==
    [][(disk' # disk) => (alive = {})]_vars

\* C40: within one session every field populated in one "miner:meta" publication
\* (the record emitted by start included) is populated in every later one.
C40_SnapshotsCumulative ==
    probe # NONE =>
      \A i, j \in DOMAIN probe[1].pubs :
        i < j => \A f \in MetaFields :
                   Populated(probe[1].pubs[i], f) => Populated(probe[1].pubs[j], f)
====
